---- MODULE Spec2Model ----
(***************************************************************************)
(* A model of backend/trademark_research.py: the trademark research run    *)
(* (conduct_trademark_research), its search fan-out, the conflict          *)
(* extractors and the risk scoring function calculate_risk_scores.         *)
(*                                                                         *)
(* Strings are TLA+ strings; a character is a string of length 1.          *)
(***************************************************************************)
EXTENDS Integers, Sequences, FiniteSets, TLC

VARIABLES
    sc_in,      \* the three conflict lists handed to calculate_risk_scores
    sc_out,     \* the dict it returned, or NoScores before the call
    pc,         \* where conduct_trademark_research stands
    args,       \* its arguments brand_name, industry, category, countries
    generated_variants, \* what generate_phonetic_variants(brand_name) returns in this process
    queries,    \* the list queries
    batch_i,    \* the loop variable i: the index of the batch's first query
    calls,      \* the execute_web_search calls of the batch being gathered
    all_search_results, \* the list all_search_results
    research,   \* the TrademarkResearchResult being filled (the local result)
    answers,    \* history: the hit list the provider has returned for each query
    warned,     \* history: a "Web search failed" warning was logged in this batch
    issued,     \* history: how often each query has been handed to the provider
    call_in,    \* the arguments of the one function call under study
    call_out,   \* what that call returned, or NotCalled before it
    runs        \* two research runs on one event loop, each with its own locals

scorevars == <<sc_in, sc_out>>

runvars == <<pc, args, generated_variants, queries, batch_i, calls,
             all_search_results, research, answers, warned, issued>>

callvars == <<call_in, call_out>>

vars == <<scorevars, runvars, callvars, runs>>

(***************************************************************************)
(* Arithmetic helpers (Python's min and max on two integers).              *)
(***************************************************************************)
Min(a, b) == IF a < b THEN a ELSE b

Max(a, b) == IF a > b THEN a ELSE b

(***************************************************************************)
(* Strings: Python's str operations used by the module.                    *)
(***************************************************************************)
UpperLetters == "ABCDEFGHIJKLMNOPQRSTUVWXYZ"

LowerLetters == "abcdefghijklmnopqrstuvwxyz"

Digits == "0123456789"

\* s[i-1] in Python: the i-th character, as a string of length 1
Char(s, i) == SubSeq(s, i, i)

\* c in letters, for a single character c
IsOneOf(c, letters) == \E k \in 1..Len(letters) : Char(letters, k) = c

IsUpper(c) == IsOneOf(c, UpperLetters)

IsLetter(c) == IsOneOf(c, UpperLetters) \/ IsOneOf(c, LowerLetters)

IsDigit(c) == IsOneOf(c, Digits)

\* the regular expression class \s (blank, tab, newline)
IsSpace(c) == c \in {" ", "\t", "\n"}

\* the regular expression class \w
IsWord(c) == IsLetter(c) \/ IsDigit(c) \/ c = "_"

LowerChar(c) ==
    IF IsUpper(c)
        THEN Char(LowerLetters, CHOOSE k \in 1..26 : Char(UpperLetters, k) = c)
        ELSE c

UpperChar(c) ==
    IF IsOneOf(c, LowerLetters)
        THEN Char(UpperLetters, CHOOSE k \in 1..26 : Char(LowerLetters, k) = c)
        ELSE c

\* str.lower()
RECURSIVE Lower(_)
Lower(s) ==
    IF Len(s) = 0 THEN ""
    ELSE IF Len(s) = 1 THEN LowerChar(s)
    ELSE LET half == Len(s) \div 2
         IN  Lower(SubSeq(s, 1, half)) \o Lower(SubSeq(s, half + 1, Len(s)))

\* s.startswith(t) at offset i (1-based): s[i-1:i-1+len(t)] == t
MatchesAt(s, i, t) ==
    /\ i >= 1
    /\ i + Len(t) - 1 <= Len(s)
    /\ SubSeq(s, i, i + Len(t) - 1) = t

\* t in s
Contains(s, t) == \E i \in 1..(Len(s) - Len(t) + 1) : MatchesAt(s, i, t)

\* s.find(t) + 1: the first place t occurs in s, 0 when it does not
Find(s, t) ==
    IF Contains(s, t)
        THEN CHOOSE i \in 1..(Len(s) - Len(t) + 1) :
                /\ MatchesAt(s, i, t)
                /\ \A k \in 1..(i - 1) : ~MatchesAt(s, k, t)
        ELSE 0

\* s.replace(old, new, 1), for old in s
ReplaceFirst(s, old, new) ==
    LET i == Find(s, old)
    IN  SubSeq(s, 1, i - 1) \o new \o SubSeq(s, i + Len(old), Len(s))

\* s.endswith(t)
EndsWith(s, t) == Len(s) >= Len(t) /\ MatchesAt(s, Len(s) - Len(t) + 1, t)

\* s[:n]
Prefix(s, n) == SubSeq(s, 1, Min(n, Len(s)))

\* any(x in s for x in words), words a sequence of strings
ContainsAny(s, words) == \E k \in DOMAIN words : Contains(s, words[k])

\* str.strip()
LStrip(s) ==
    IF \A i \in 1..Len(s) : IsSpace(Char(s, i)) THEN ""
    ELSE SubSeq(s, CHOOSE i \in 1..Len(s) :
                       /\ ~IsSpace(Char(s, i))
                       /\ \A k \in 1..(i - 1) : IsSpace(Char(s, k)),
                Len(s))

RStrip(s) ==
    IF \A i \in 1..Len(s) : IsSpace(Char(s, i)) THEN ""
    ELSE SubSeq(s, 1, CHOOSE i \in 1..Len(s) :
                          /\ ~IsSpace(Char(s, i))
                          /\ \A k \in (i + 1)..Len(s) : IsSpace(Char(s, k)))

Strip(s) == LStrip(RStrip(s))

(***************************************************************************)
(* Regular expressions: the part of Python's re that the module uses.      *)
(* A pattern is a tree; RxMatch lists, in the order in which the           *)
(* backtracking matcher tries them, the ways the pattern matches at a      *)
(* place, so the first element is the match re reports (greedy             *)
(* repetition, alternatives left to right).                                *)
(***************************************************************************)
Lit(str) == [t |-> "lit", s |-> str]

\* a character class [...], given by the characters in it
Set(chars) == [t |-> "set", in |-> chars, neg |-> FALSE]

\* a negated character class [^...]
NotSet(chars) == [t |-> "set", in |-> chars, neg |-> TRUE]

Cat(nodes) == [t |-> "seq", of |-> nodes]

Alt(nodes) == [t |-> "alt", of |-> nodes]

\* node{lo,hi}, greedy
Rep(node, lo, hi) == [t |-> "rep", of |-> node, min |-> lo, max |-> hi]

Unbounded == 1000000

Star(node) == Rep(node, 0, Unbounded)

Plus(node) == Rep(node, 1, Unbounded)

Opt(node) == Rep(node, 0, 1)

\* the capturing group number n
Grp(n, node) == [t |-> "grp", n |-> n, of |-> node]

\* \b
WordBoundary == [t |-> "wb"]

SpaceChars == " \t\n\r\f"

RxSpace == Set(SpaceChars)

RxDigit == Set(Digits)

RxUpper == Set(UpperLetters)

RxLetter == Set(UpperLetters \o LowerLetters)

RxWord == Set(UpperLetters \o LowerLetters \o Digits \o "_")

NoGroups == << <<0, 0>>, <<0, 0>> >>

\* c matches the class; ic is re.IGNORECASE
InClass(c, node, ic) ==
    LET hit == \/ IsOneOf(c, node.in)
               \/ ic /\ (IsOneOf(LowerChar(c), node.in) \/ IsOneOf(UpperChar(c), node.in))
    IN  IF node.neg THEN ~hit ELSE hit

LitMatchesAt(s, i, str, ic) ==
    IF ic
        THEN /\ i >= 1
             /\ i + Len(str) - 1 <= Len(s)
             /\ Lower(SubSeq(s, i, i + Len(str) - 1)) = Lower(str)
        ELSE MatchesAt(s, i, str)

\* \b at place i: exactly one of the characters before and after is a word one
AtWordBoundary(s, i) ==
    LET before == i > 1 /\ IsWord(Char(s, i - 1))
        after == i <= Len(s) /\ IsWord(Char(s, i))
    IN  before # after

\* the lists of a list, one after the other
RECURSIVE Flatten(_)
Flatten(lists) ==
    IF Len(lists) = 0 THEN <<>>
    ELSE IF Len(lists) = 1 THEN lists[1]
    ELSE LET half == Len(lists) \div 2
         IN  Flatten(SubSeq(lists, 1, half)) \o Flatten(SubSeq(lists, half + 1, Len(lists)))

\* how many of the characters s[lo..hi], from lo on, are in the class
RECURSIVE RunLength(_, _, _, _, _)
RunLength(node, s, lo, hi, ic) ==
    IF lo > hi THEN 0
    ELSE IF lo = hi THEN (IF InClass(Char(s, lo), node, ic) THEN 1 ELSE 0)
    ELSE LET mid == (lo + hi) \div 2
             left == RunLength(node, s, lo, mid, ic)
         IN  IF left < mid - lo + 1 THEN left
             ELSE left + RunLength(node, s, mid + 1, hi, ic)

RECURSIVE RxMatch(_, _, _, _, _)
RECURSIVE RxSeq(_, _, _, _, _, _)
RECURSIVE RxRep(_, _, _, _, _, _)

RxMatch(node, s, i, caps, ic) ==
    CASE node.t = "lit" ->
            IF LitMatchesAt(s, i, node.s, ic)
                THEN << [pos |-> i + Len(node.s), caps |-> caps] >> ELSE <<>>
      [] node.t = "set" ->
            IF i <= Len(s) /\ InClass(Char(s, i), node, ic)
                THEN << [pos |-> i + 1, caps |-> caps] >> ELSE <<>>
      [] node.t = "wb" ->
            IF AtWordBoundary(s, i) THEN << [pos |-> i, caps |-> caps] >> ELSE <<>>
      [] node.t = "seq" -> RxSeq(node.of, 1, s, i, caps, ic)
      [] node.t = "alt" ->
            Flatten([k \in DOMAIN node.of |-> RxMatch(node.of[k], s, i, caps, ic)])
      [] node.t = "rep" -> RxRep(node, 0, s, i, caps, ic)
      [] node.t = "grp" ->
            LET inner == RxMatch(node.of, s, i, caps, ic)
            IN  [k \in DOMAIN inner |->
                    [pos |-> inner[k].pos,
                     caps |-> [inner[k].caps EXCEPT ![node.n] = <<i, inner[k].pos>>]]]

RxSeq(nodes, k, s, i, caps, ic) ==
    IF k > Len(nodes) THEN << [pos |-> i, caps |-> caps] >>
    ELSE LET first == RxMatch(nodes[k], s, i, caps, ic)
         IN  Flatten([r \in DOMAIN first |->
                        RxSeq(nodes, k + 1, s, first[r].pos, first[r].caps, ic)])

\* A repeated character class takes the longest run first and gives back one
\* character at a time; any other repeated node is matched once more, then
\* again, and the attempt with fewer repetitions comes after.
RxRep(node, count, s, i, caps, ic) ==
    IF node.of.t = "set" /\ count = 0
    THEN LET run == RunLength(node.of, s, i, Min(Len(s), i + node.max - 1), ic)
         IN  IF run < node.min THEN <<>>
             ELSE [k \in 1..(run - node.min + 1) |->
                      [pos |-> i + run - k + 1, caps |-> caps]]
    ELSE
    LET once == IF count < node.max THEN RxMatch(node.of, s, i, caps, ic) ELSE <<>>
        more == Flatten([r \in DOMAIN once |->
                    IF once[r].pos > i
                        THEN RxRep(node, count + 1, s, once[r].pos, once[r].caps, ic)
                        ELSE <<>>])
        stop == IF count >= node.min THEN << [pos |-> i, caps |-> caps] >> ELSE <<>>
    IN  more \o stop

NoMatch == [found |-> FALSE]

\* the leftmost match that starts at one of the places lo..hi
RECURSIVE RxSearchIn(_, _, _, _, _)
RxSearchIn(node, s, lo, hi, ic) ==
    IF lo > hi THEN NoMatch
    ELSE IF lo = hi
        THEN LET here == RxMatch(node, s, lo, NoGroups, ic)
             IN  IF here # <<>>
                     THEN [found |-> TRUE, start |-> lo, pos |-> here[1].pos,
                           caps |-> here[1].caps]
                     ELSE NoMatch
    ELSE LET mid == (lo + hi) \div 2
             left == RxSearchIn(node, s, lo, mid, ic)
         IN  IF left.found THEN left ELSE RxSearchIn(node, s, mid + 1, hi, ic)

\* re.search(pattern, s), looking from place i on
RxSearchFrom(node, s, i, ic) == RxSearchIn(node, s, i, Len(s) + 1, ic)

Search(node, s) == RxSearchFrom(node, s, 1, FALSE)

SearchIgnoreCase(node, s) == RxSearchFrom(node, s, 1, TRUE)

\* match.group(0)
Group0(s, m) == SubSeq(s, m.start, m.pos - 1)

\* match.group(n)
Group(s, m, n) == SubSeq(s, m.caps[n][1], m.caps[n][2] - 1)

(***************************************************************************)
(* The patterns of the extractors.                                         *)
(***************************************************************************)
\* [A-Z][a-zA-Z]+(?:\s+[A-Z][a-zA-Z]+)*
CapitalisedWords ==
    Cat(<< RxUpper, Plus(RxLetter),
           Star(Cat(<< Plus(RxSpace), RxUpper, Plus(RxLetter) >>)) >>)

\* r'\b(\d{7})\b'
AppNumberPattern == Cat(<< WordBoundary, Grp(1, Rep(RxDigit, 7, 7)), WordBoundary >>)

\* r'class\s*(\d{1,2})'
ClassPattern == Cat(<< Lit("class"), Star(RxSpace), Grp(1, Rep(RxDigit, 1, 2)) >>)

\* r'"([^"]+)"'
QuotedPattern == Cat(<< Lit("\""), Grp(1, Plus(NotSet("\""))), Lit("\"") >>)

TrademarkWord == Alt(<< Lit("trademark"), Lit("brand"), Lit("mark") >>)

\* r'(\b[A-Z][a-zA-Z]+(?:\s+[A-Z][a-zA-Z]+)*)\s+(?:trademark|brand|mark)'
NameBeforeMarkPattern ==
    Cat(<< Grp(1, Cat(<< WordBoundary, CapitalisedWords >>)), Plus(RxSpace),
           TrademarkWord >>)

\* r'(?:trademark|brand|mark)\s+(\b[A-Z][a-zA-Z]+(?:\s+[A-Z][a-zA-Z]+)*)'
NameAfterMarkPattern ==
    Cat(<< TrademarkWord, Plus(RxSpace),
           Grp(1, Cat(<< WordBoundary, CapitalisedWords >>)) >>)

\* r'[UL]\d{5}[A-Z]{2}\d{4}[A-Z]{3}\d{6}'
CinPattern ==
    Cat(<< Set("UL"), Rep(RxDigit, 5, 5), Rep(RxUpper, 2, 2), Rep(RxDigit, 4, 4),
           Rep(RxUpper, 3, 3), Rep(RxDigit, 6, 6) >>)

\* r'(...)\s+(?:Private Limited|Pvt\.?\s*Ltd\.?|Limited|LLP|Inc\.?)'
CompanySuffixPattern ==
    Cat(<< Grp(1, CapitalisedWords), Plus(RxSpace),
           Alt(<< Lit("Private Limited"),
                  Cat(<< Lit("Pvt"), Opt(Lit(".")), Star(RxSpace), Lit("Ltd"),
                         Opt(Lit(".")) >>),
                  Lit("Limited"), Lit("LLP"),
                  Cat(<< Lit("Inc"), Opt(Lit(".")) >>) >>) >>)

\* r'(...)\s+(?:Enterprises|Corporation|Company)'
CompanyKindPattern ==
    Cat(<< Grp(1, CapitalisedWords), Plus(RxSpace),
           Alt(<< Lit("Enterprises"), Lit("Corporation"), Lit("Company") >>) >>)

\* [A-Z][a-zA-Z\s]+
PartyName == Cat(<< RxUpper, Plus(Set(UpperLetters \o LowerLetters \o SpaceChars)) >>)

\* r'([A-Z][a-zA-Z\s]+)\s+(?:v|vs|versus)\.?\s+([A-Z][a-zA-Z\s]+)'
CasePattern ==
    Cat(<< Grp(1, PartyName), Plus(RxSpace),
           Alt(<< Lit("v"), Lit("vs"), Lit("versus") >>), Opt(Lit(".")),
           Plus(RxSpace), Grp(2, PartyName) >>)

\* r'\b(19|20)\d{2}\b'
YearPattern ==
    Cat(<< WordBoundary, Grp(1, Alt(<< Lit("19"), Lit("20") >>)), Rep(RxDigit, 2, 2),
           WordBoundary >>)

\* r'(@\w+)'
HandlePattern == Grp(1, Cat(<< Lit("@"), Plus(RxWord) >>))

\* r'([A-Z][a-zA-Z]+(?:\s+[A-Z][a-zA-Z]+)*)\s+(?:Official|Shop|Store)'
ShopNamePattern ==
    Cat(<< Grp(1, CapitalisedWords), Plus(RxSpace),
           Alt(<< Lit("Official"), Lit("Shop"), Lit("Store") >>) >>)

(***************************************************************************)
(* get_nice_classification                                                 *)
(***************************************************************************)
\* the dict NICE_CLASSIFICATION, in insertion order
NICE_CLASSIFICATION == <<
    [key |-> "fashion", class |-> 25, description |-> "Clothing, footwear, headgear"],
    [key |-> "apparel", class |-> 25, description |-> "Clothing, footwear, headgear"],
    [key |-> "streetwear", class |-> 25, description |-> "Clothing, footwear, headgear"],
    [key |-> "clothing", class |-> 25, description |-> "Clothing, footwear, headgear"],
    [key |-> "footwear", class |-> 25, description |-> "Clothing, footwear, headgear"],
    [key |-> "jewelry", class |-> 14, description |-> "Precious metals, jewelry, watches"],
    [key |-> "cosmetics", class |-> 3, description |-> "Cosmetics, cleaning preparations"],
    [key |-> "skincare", class |-> 3, description |-> "Cosmetics, cleaning preparations"],
    [key |-> "beauty", class |-> 3, description |-> "Cosmetics, cleaning preparations"],
    [key |-> "software", class |-> 9, description |-> "Scientific apparatus, computers, software"],
    [key |-> "technology", class |-> 9, description |-> "Scientific apparatus, computers, software"],
    [key |-> "tech", class |-> 9, description |-> "Scientific apparatus, computers, software"],
    [key |-> "app", class |-> 9, description |-> "Scientific apparatus, computers, software"],
    [key |-> "saas", class |-> 42, description |-> "Scientific and technological services"],
    [key |-> "food", class |-> 29, description |-> "Meat, fish, preserved foods"],
    [key |-> "restaurant", class |-> 43, description |-> "Food and drink services"],
    [key |-> "cafe", class |-> 43, description |-> "Food and drink services"],
    [key |-> "beverages", class |-> 32, description |-> "Beers, mineral waters, soft drinks"],
    [key |-> "pharmaceutical", class |-> 5, description |-> "Pharmaceuticals, medical preparations"],
    [key |-> "pharma", class |-> 5, description |-> "Pharmaceuticals, medical preparations"],
    [key |-> "healthcare", class |-> 44, description |-> "Medical and healthcare services"],
    [key |-> "education", class |-> 41, description |-> "Education, training, entertainment"],
    [key |-> "edtech", class |-> 41, description |-> "Education, training, entertainment"],
    [key |-> "finance", class |-> 36, description |-> "Insurance, financial affairs"],
    [key |-> "fintech", class |-> 36, description |-> "Insurance, financial affairs"],
    [key |-> "banking", class |-> 36, description |-> "Insurance, financial affairs"],
    [key |-> "real estate", class |-> 36, description |-> "Insurance, financial affairs, real estate"],
    [key |-> "automotive", class |-> 12, description |-> "Vehicles, apparatus for locomotion"],
    [key |-> "toys", class |-> 28, description |-> "Games, toys, sporting goods"],
    [key |-> "gaming", class |-> 28, description |-> "Games, toys, sporting goods"],
    [key |-> "furniture", class |-> 20, description |-> "Furniture, mirrors, picture frames"],
    [key |-> "home decor", class |-> 20, description |-> "Furniture, mirrors, picture frames"]
>>

\* key in term or term in key
NiceMatches(term, key) == Contains(term, key) \/ Contains(key, term)

\* the first entry of the table that matches term, 0 when none does
FirstNiceMatch(term) ==
    IF \E k \in DOMAIN NICE_CLASSIFICATION : NiceMatches(term, NICE_CLASSIFICATION[k].key)
        THEN CHOOSE k \in DOMAIN NICE_CLASSIFICATION :
                /\ NiceMatches(term, NICE_CLASSIFICATION[k].key)
                /\ \A m \in 1..(k - 1) : ~NiceMatches(term, NICE_CLASSIFICATION[m].key)
        ELSE 0

NiceEntry(k) ==
    [class_number |-> NICE_CLASSIFICATION[k].class,
     class_description |-> NICE_CLASSIFICATION[k].description,
     matched_term |-> NICE_CLASSIFICATION[k].key]

get_nice_classification(category, industry) ==
    LET byCategory == FirstNiceMatch(Lower(category))
        byIndustry == FirstNiceMatch(Lower(industry))
    IN  IF byCategory # 0 THEN NiceEntry(byCategory)
        ELSE IF byIndustry # 0 THEN NiceEntry(byIndustry)
        ELSE [class_number |-> 35,
              class_description |-> "Advertising, business management, office functions",
              matched_term |-> "general business"]

(***************************************************************************)
(* generate_phonetic_variants                                              *)
(***************************************************************************)
\* the list substitutions
substitutions == <<
    <<"i", "ee">>, <<"i", "y">>, <<"ee", "i">>,
    <<"a", "ah">>, <<"a", "e">>,
    <<"c", "k">>, <<"k", "c">>,
    <<"ph", "f">>, <<"f", "ph">>,
    <<"s", "z">>, <<"z", "s">>,
    <<"x", "ks">>, <<"ks", "x">>,
    <<"ou", "u">>, <<"u", "ou">>,
    <<"oo", "u">>, <<"u", "oo">>,
    <<"ae", "e">>, <<"e", "ae">>
>>

\* the list variants after the substitution loop has handled the first n rules
RECURSIVE SubstitutionVariants(_, _)
SubstitutionVariants(name, n) ==
    IF n = 0 THEN <<>>
    ELSE LET old == substitutions[n][1]
             new == substitutions[n][2]
             before == SubstitutionVariants(name, n - 1)
         IN  IF Contains(name, old)
                 THEN Append(before, ReplaceFirst(name, old, new))
                 ELSE before

\* the list variants before duplicates and the original are removed
VariantCandidates(brand_name) ==
    LET name == Lower(brand_name)
        bySubstitution == SubstitutionVariants(name, Len(substitutions))
        forA == IF EndsWith(name, "a")
                    THEN <<name \o "e", SubSeq(name, 1, Len(name) - 1)>> ELSE <<>>
        forE == IF EndsWith(name, "e")
                    THEN <<name \o "a", SubSeq(name, 1, Len(name) - 1)>> ELSE <<>>
    IN  bySubstitution \o forA \o forE

\* VariantSet without the filter `and v`: the empty variant stays
VariantSet_KeepsEmpty(brand_name) ==
    LET candidates == VariantCandidates(brand_name)
    IN  {candidates[k] : k \in DOMAIN candidates} \ {Lower(brand_name)}

\* set([v for v in variants if v != name and v])
VariantSet(brand_name) ==
    LET candidates == VariantCandidates(brand_name)
    IN  {candidates[k] : k \in DOMAIN candidates} \ {Lower(brand_name), ""}

\* The lists generate_phonetic_variants can return: list(set(...))[:5] lists the
\* set in the iteration order of a Python set of strings, which the language
\* leaves open, so every order of every choice of min(5, n) variants is possible.
PhoneticVariantResults(brand_name) ==
    LET all == VariantSet(brand_name)
        n == Min(5, Cardinality(all))
    IN  {order \in [1..n -> all] : \A a, b \in 1..n : a # b => order[a] # order[b]}

(***************************************************************************)
(* generate_search_queries                                                 *)
(***************************************************************************)
Quoted(s) == "\"" \o s \o "\""

\* sep.join(parts)
RECURSIVE Join(_, _)
Join(sep, parts) ==
    IF parts = <<>> THEN ""
    ELSE IF Len(parts) = 1 THEN parts[1]
    ELSE parts[1] \o sep \o Join(sep, Tail(parts))

\* Slice returning the empty list whatever the bounds
Slice_Nothing(seq, lo, hi) == SubSeq(seq, 1, 0)

\* seq[lo:hi] with Python's clamping (0-based lo, exclusive hi)
Slice(seq, lo, hi) == SubSeq(seq, lo + 1, Min(hi, Len(seq)))

\* Query with the two fields exchanged
Query_Swapped(query, purpose) == [query |-> purpose, purpose |-> query]

Query(query, purpose) == [query |-> query, purpose |-> purpose]

\* phonetic_variants is what generate_phonetic_variants(brand_name) returned
generate_search_queries(brand_name, industry, category, countries, phonetic_variants) ==
    LET primary_country == IF countries # <<>> THEN countries[1] ELSE "India"
        class_number == get_nice_classification(category, industry).class_number
        direct == <<
            Query(Quoted(brand_name) \o " trademark registered " \o primary_country,
                  "Find registered trademarks with exact name"),
            Query(Quoted(brand_name) \o " trademark application status",
                  "Find pending trademark applications"),
            Query(brand_name \o " trademark class " \o ToString(class_number),
                  "Find trademarks in same Nice class") >>
        business == <<
            Query(Quoted(brand_name) \o " brand " \o industry,
                  "Find existing brands with same name in industry"),
            Query(Quoted(brand_name) \o " " \o category \o " company",
                  "Find companies operating with this name"),
            Query(brand_name \o " " \o category \o " existing brands competitors",
                  "Find market competitors with similar names") >>
        registry == <<
            Query(Quoted(brand_name) \o " private limited company " \o primary_country,
                  "Find registered companies"),
            Query("site:tofler.in " \o Quoted(brand_name),
                  "Search Tofler company database"),
            Query("site:zaubacorp.com " \o Quoted(brand_name),
                  "Search Zauba Corp company database") >>
        shown == Slice(phonetic_variants, 0, 3)
        variant_str == Join(" OR ", [k \in DOMAIN shown |-> Quoted(shown[k])])
        phonetic ==
            IF phonetic_variants # <<>>
                THEN << Query("(" \o variant_str \o ") trademark " \o primary_country
                                  \o " " \o industry,
                              "Find phonetically similar trademarks") >>
                ELSE <<>>
        legal == <<
            Query(primary_country \o " trademark phonetic similarity legal case "
                      \o category,
                  "Find relevant legal precedents"),
            Query("trademark opposition " \o category \o " " \o primary_country
                      \o " case law",
                  "Find opposition case precedents") >>
        secondary == Slice(countries, 1, 4)
        international ==
            IF Len(countries) > 1
                THEN [k \in DOMAIN secondary |->
                         Query(Quoted(brand_name) \o " trademark " \o secondary[k]
                                   \o " " \o category,
                               "Find trademarks in " \o secondary[k])]
                ELSE <<>>
        aggregators == <<
            Query("site:trademarking.in " \o Quoted(brand_name),
                  "Search trademark aggregator"),
            Query("site:ipindia.gov.in " \o Quoted(brand_name),
                  "Search IP India official site") >>
    IN  direct \o business \o registry \o phonetic \o legal \o international
            \o aggregators

(***************************************************************************)
(* The conflict extractors.  A search result is a record with the fields   *)
(* title, url, snippet, source and query_purpose; None stands for Python's *)
(* None in an optional field.                                              *)
(***************************************************************************)
None == "<None>"

\* f"{title} {snippet}".lower()
Combined(result) == Lower(result.title) \o " " \o Lower(result.snippet)

\* brand_lower in combined or any(v in combined for v in generate_phonetic_variants(...))
MentionsBrand(combined, brand_name, phonetic_variants) ==
    \/ Contains(combined, Lower(brand_name))
    \/ ContainsAny(combined, phonetic_variants)

\* str.title(): the first letter of every run of letters in upper case, the rest lower
RECURSIVE TitleFrom(_, _)
TitleFrom(s, i) ==
    IF i > Len(s) THEN ""
    ELSE LET c == Char(s, i)
             starts == i = 1 \/ ~IsLetter(Char(s, i - 1))
         IN  (IF starts THEN UpperChar(c) ELSE LowerChar(c)) \o TitleFrom(s, i + 1)

Title(s) == TitleFrom(s, 1)

extract_brand_name_from_text(text, original_brand) ==
    LET quoted == Search(QuotedPattern, text)
        before == Search(NameBeforeMarkPattern, text)
        after == Search(NameAfterMarkPattern, text)
    IN  IF quoted.found THEN Group(text, quoted, 1)
        ELSE IF before.found THEN Group(text, before, 1)
        ELSE IF after.found THEN Group(text, after, 1)
        ELSE IF Contains(Lower(text), Lower(original_brand)) THEN original_brand
        ELSE None

extract_company_name_from_text(text, original_brand) ==
    LET bySuffix == SearchIgnoreCase(CompanySuffixPattern, text)
        byKind == SearchIgnoreCase(CompanyKindPattern, text)
    IN  IF bySuffix.found THEN Strip(Group0(text, bySuffix))
        ELSE IF byKind.found THEN Strip(Group0(text, byKind))
        ELSE None

\* the dict industries, in insertion order
industries == <<
    [industry |-> "fashion",
     keywords |-> <<"fashion", "apparel", "clothing", "garment", "textile">>],
    [industry |-> "technology",
     keywords |-> <<"technology", "software", "tech", "it ", "digital">>],
    [industry |-> "cosmetics",
     keywords |-> <<"cosmetic", "beauty", "skincare", "personal care">>],
    [industry |-> "food",
     keywords |-> <<"food", "beverage", "restaurant", "cafe", "f&b">>],
    [industry |-> "pharma",
     keywords |-> <<"pharmaceutical", "pharma", "medicine", "drug", "healthcare">>],
    [industry |-> "finance",
     keywords |-> <<"finance", "banking", "investment", "fintech">>],
    [industry |-> "education",
     keywords |-> <<"education", "edtech", "learning", "training">>]
>>

\* the first element of a list of candidates that passes, else the default
RECURSIVE FirstWhere(_, _, _, _)
FirstWhere(list, k, Passes(_), default) ==
    IF k > Len(list) THEN default
    ELSE IF Passes(list[k]) THEN list[k]
    ELSE FirstWhere(list, k + 1, Passes, default)

extract_industry_from_text(text) ==
    LET text_lower == Lower(text)
        Named(entry) == ContainsAny(text_lower, entry.keywords)
        found == FirstWhere(industries, 1, Named, [industry |-> None])
    IN  IF found.industry = None THEN None ELSE Title(found.industry)

\* a keyword chain tried from its last keyword to its first
TrademarkStatus_LastWins(combined) ==
    IF Contains(combined, "abandoned") THEN "ABANDONED"
    ELSE IF Contains(combined, "opposed") THEN "OPPOSED"
    ELSE IF Contains(combined, "objected") THEN "OBJECTED"
    ELSE IF Contains(combined, "pending") THEN "PENDING"
    ELSE IF Contains(combined, "registered") THEN "REGISTERED"
    ELSE None

\* the status keyword chain of extract_trademark_conflicts
TrademarkStatus(combined) ==
    IF Contains(combined, "registered") THEN "REGISTERED"
    ELSE IF Contains(combined, "pending") THEN "PENDING"
    ELSE IF Contains(combined, "objected") THEN "OBJECTED"
    ELSE IF Contains(combined, "opposed") THEN "OPPOSED"
    ELSE IF Contains(combined, "abandoned") THEN "ABANDONED"
    ELSE None

TrademarkSource(url) ==
    IF Contains(url, "trademarking.in") THEN "Trademarking.in"
    ELSE IF Contains(url, "ipindia") THEN "IP India"
    ELSE IF Contains(url, "justia") THEN "USPTO/Justia"
    ELSE "Web Search"

\* a risk level that does not look at the status
TrademarkRisk_AlwaysMedium(status) == "MEDIUM"

\* a risk level that rates a registered mark as critical
TrademarkRisk_RegisteredCritical(status) ==
    IF status = "REGISTERED" THEN "CRITICAL"
    ELSE IF status = "PENDING" THEN "MEDIUM"
    ELSE IF status = "OBJECTED" THEN "LOW"
    ELSE "MEDIUM"

TrademarkRisk(status) ==
    IF status = "REGISTERED" THEN "HIGH"
    ELSE IF status = "PENDING" THEN "MEDIUM"
    ELSE IF status = "OBJECTED" THEN "LOW"
    ELSE "MEDIUM"

\* the TrademarkConflict built for one result
TrademarkConflict(result, conflict_name) ==
    LET combined == Combined(result)
        app_number == Search(AppNumberPattern, combined)
        class_match == Search(ClassPattern, combined)
        status == TrademarkStatus(combined)
    IN  [name |-> conflict_name,
         source |-> TrademarkSource(result.url),
         conflict_type |-> "trademark_application",
         application_number |->
             IF app_number.found THEN Group(combined, app_number, 1) ELSE None,
         status |-> status,
         class_number |->
             IF class_match.found THEN Group(combined, class_match, 1) ELSE None,
         risk_level |-> TrademarkRisk(status),
         details |-> Prefix(result.snippet, 200),
         url |-> result.url]

\* the state of an extractor's loop: what it has appended and the names seen
NothingExtracted == [conflicts |-> <<>>, seen |-> {}, raised |-> FALSE]

\* the loop of extract_trademark_conflicts after its first n results
RECURSIVE TrademarkLoop(_, _, _, _)
TrademarkLoop(search_results, n, brand_name, phonetic_variants) ==
    IF n = 0 THEN NothingExtracted
    ELSE LET sofar == TrademarkLoop(search_results, n - 1, brand_name, phonetic_variants)
             result == search_results[n]
             conflict_name == extract_brand_name_from_text(result.title, brand_name)
         IN  IF /\ MentionsBrand(Combined(result), brand_name, phonetic_variants)
                /\ conflict_name # None /\ conflict_name # ""
                /\ Lower(conflict_name) \notin sofar.seen
                 THEN [sofar EXCEPT
                          !.conflicts = Append(@, TrademarkConflict(result, conflict_name)),
                          !.seen = @ \cup {Lower(conflict_name)}]
                 ELSE sofar

\* an extractor that stops at its first conflict
extract_trademark_conflicts_FirstOnly(search_results, brand_name, phonetic_variants) ==
    Slice(TrademarkLoop(search_results, Len(search_results), brand_name,
                        phonetic_variants).conflicts, 0, 1)

extract_trademark_conflicts(search_results, brand_name, phonetic_variants) ==
    TrademarkLoop(search_results, Len(search_results), brand_name,
                  phonetic_variants).conflicts

company_keywords == <<"private limited", "pvt ltd", "limited", "llp",
                      "incorporated", "company", "enterprises", "corporation">>

indian_states == <<"maharashtra", "delhi", "karnataka", "tamil nadu", "telangana",
                   "gujarat", "west bengal", "rajasthan", "kerala", "andhra pradesh">>

CompanySource(url) ==
    IF Contains(url, "tofler.in") THEN "Tofler"
    ELSE IF Contains(url, "zaubacorp") THEN "Zauba Corp"
    ELSE IF Contains(url, "mca.gov.in") THEN "MCA"
    ELSE "Web Search"

CompanyState(combined) ==
    LET Named(state) == Contains(combined, state)
        found == FirstWhere(indian_states, 1, Named, None)
    IN  IF found = None THEN None ELSE Title(found)

\* the CompanyConflict built for one result
CompanyConflict(result, brand_name, company_name) ==
    LET combined == Combined(result)
        both == result.title \o " " \o result.snippet
        cin_match == SearchIgnoreCase(CinPattern, both)
    IN  [name |-> company_name,
         cin |-> IF cin_match.found THEN Group0(both, cin_match) ELSE None,
         status |-> IF Contains(combined, "active") THEN "ACTIVE" ELSE "UNKNOWN",
         industry |-> extract_industry_from_text(result.snippet),
         state |-> CompanyState(combined),
         source |-> CompanySource(result.url),
         risk_level |->
             IF Contains(Lower(company_name), Lower(brand_name))
                 THEN "HIGH" ELSE "MEDIUM",
         url |-> result.url]

\* the loop of extract_company_conflicts after its first n results
RECURSIVE CompanyLoop(_, _, _, _)
CompanyLoop(search_results, n, brand_name, phonetic_variants) ==
    IF n = 0 THEN NothingExtracted
    ELSE LET sofar == CompanyLoop(search_results, n - 1, brand_name, phonetic_variants)
             result == search_results[n]
             combined == Combined(result)
             company_name == extract_company_name_from_text(result.title, brand_name)
         IN  IF /\ MentionsBrand(combined, brand_name, phonetic_variants)
                /\ ContainsAny(combined, company_keywords)
                /\ company_name # None /\ company_name # ""
                /\ Lower(company_name) \notin sofar.seen
                 THEN [sofar EXCEPT
                          !.conflicts =
                              Append(@, CompanyConflict(result, brand_name, company_name)),
                          !.seen = @ \cup {Lower(company_name)}]
                 ELSE sofar

extract_company_conflicts(search_results, brand_name, phonetic_variants) ==
    CompanyLoop(search_results, Len(search_results), brand_name,
                phonetic_variants).conflicts

legal_keywords == <<" v ", " vs ", "case", "judgment", "court", "tribunal",
                    "infringement", "passing off", "section 29", "trade marks act">>

\* url.split("/"): the pieces of url between its slashes
RECURSIVE SplitOn(_, _)
SplitOn(s, sep) ==
    LET i == Find(s, sep)
    IN  IF i = 0 THEN <<s>>
        ELSE <<SubSeq(s, 1, i - 1)>> \o SplitOn(SubSeq(s, i + Len(sep), Len(s)), sep)

\* url.split("/")[2] raises IndexError for a url with fewer than two slashes
SourceRaises(url) == url # "" /\ Len(SplitOn(url, "/")) < 3

\* url.split("/")[2] if url else "Unknown"
PrecedentSource(url) == IF url # "" THEN SplitOn(url, "/")[3] ELSE "Unknown"

CaseName(title) ==
    LET case_match == Search(CasePattern, title)
    IN  IF case_match.found
            THEN Strip(Group(title, case_match, 1)) \o " v. "
                     \o Strip(Group(title, case_match, 2))
            ELSE Prefix(title, 100)

Court(combined) ==
    IF Contains(combined, "supreme court") THEN "Supreme Court of India"
    ELSE IF /\ Contains(combined, "delhi")
            /\ (Contains(combined, "high court") \/ Contains(combined, "hc"))
        THEN "Delhi High Court"
    ELSE IF Contains(combined, "bombay") /\ Contains(combined, "high court")
        THEN "Bombay High Court"
    ELSE IF Contains(combined, "high court") THEN "High Court"
    ELSE None

\* the LegalPrecedent built for one result whose url has a third piece
LegalPrecedent(result, case_name) ==
    LET combined == Combined(result)
        year_match == Search(YearPattern, combined)
    IN  [case_name |-> Prefix(case_name, 150),
         court |-> Court(combined),
         year |-> IF year_match.found THEN Group0(combined, year_match) ELSE None,
         relevance |-> Prefix(result.snippet, 200),
         source |-> PrecedentSource(result.url),
         url |-> result.url]

\* the loop of extract_legal_precedents after its first n results; raised when
\* the IndexError of url.split("/")[2] has ended it
RECURSIVE LegalLoop(_, _)
LegalLoop(search_results, n) ==
    IF n = 0 THEN NothingExtracted
    ELSE LET sofar == LegalLoop(search_results, n - 1)
             result == search_results[n]
             case_name == CaseName(result.title)
         IN  IF sofar.raised THEN sofar
             ELSE IF /\ ContainsAny(Combined(result), legal_keywords)
                     /\ Lower(case_name) \notin sofar.seen
                 THEN IF SourceRaises(result.url)
                          THEN [sofar EXCEPT !.raised = TRUE,
                                             !.seen = @ \cup {Lower(case_name)}]
                          ELSE [sofar EXCEPT
                                   !.conflicts = Append(@, LegalPrecedent(result, case_name)),
                                   !.seen = @ \cup {Lower(case_name)}]
                 ELSE sofar

\* extract_legal_precedents raises instead of returning
LegalPrecedentsRaise(search_results) ==
    LegalLoop(search_results, Len(search_results)).raised

\* precedents[:5]
extract_legal_precedents(search_results) ==
    Slice(LegalLoop(search_results, Len(search_results)).conflicts, 0, 5)

business_keywords == <<"shop", "store", "buy", "order", "instagram", "facebook",
                       "@", "official", "website", "online", ".com", "ecommerce">>

registry_markers == <<"trademark", "ipindia", "wipo", "uspto", "tofler", "mca.gov",
                      "court", "legal", "law">>

\* a registry test that forgets url.lower()
IsRegistry_CaseSensitive(url) == ContainsAny(url, registry_markers)

\* is_registry: any(x in url.lower() for x in [...])
IsRegistry(url) == ContainsAny(Lower(url), registry_markers)

extract_business_name(text, original_brand) ==
    LET handle == Search(HandlePattern, text)
        shop == Search(ShopNamePattern, text)
    IN  IF handle.found THEN Group(text, handle, 1)
        ELSE IF shop.found THEN Group(text, shop, 1)
        ELSE IF Contains(Lower(text), Lower(original_brand)) THEN original_brand
        ELSE None

Platform(url, combined) ==
    IF Contains(url, "instagram") \/ Contains(combined, "instagram") THEN "Instagram"
    ELSE IF Contains(url, "facebook") \/ Contains(combined, "facebook") THEN "Facebook"
    ELSE IF Contains(url, "amazon") THEN "Amazon"
    ELSE IF Contains(url, "flipkart") THEN "Flipkart"
    ELSE "Website"

\* the dict built for one result
CommonLawConflict(result, industry, business_name) ==
    LET combined == Combined(result)
    IN  [name |-> business_name,
         platform |-> Platform(result.url, combined),
         industry_match |->
             IF industry # "" THEN Contains(combined, Lower(industry)) ELSE FALSE,
         url |-> result.url,
         snippet |-> Prefix(result.snippet, 150),
         risk_type |-> "common_law",
         risk_level |->
             IF Contains(combined, Lower(industry)) THEN "MEDIUM" ELSE "LOW"]

\* the loop of extract_common_law_conflicts after its first n results
RECURSIVE CommonLawLoop(_, _, _, _)
CommonLawLoop(search_results, n, brand_name, industry) ==
    IF n = 0 THEN NothingExtracted
    ELSE LET sofar == CommonLawLoop(search_results, n - 1, brand_name, industry)
             result == search_results[n]
             combined == Combined(result)
             is_business == ContainsAny(combined, business_keywords)
             is_registry == IsRegistry(result.url)
             business_name == extract_business_name(result.title, brand_name)
         IN  IF /\ is_business /\ ~is_registry
                /\ Contains(combined, Lower(brand_name))
                /\ business_name # None /\ business_name # ""
                /\ Lower(business_name) \notin sofar.seen
                 THEN [sofar EXCEPT
                          !.conflicts =
                              Append(@, CommonLawConflict(result, industry, business_name)),
                          !.seen = @ \cup {Lower(business_name)}]
                 ELSE sofar

\* conflicts[:10]
extract_common_law_conflicts(search_results, brand_name, industry) ==
    Slice(CommonLawLoop(search_results, Len(search_results), brand_name,
                        industry).conflicts, 0, 10)

(***************************************************************************)
(* create_search_summary                                                   *)
(***************************************************************************)
\* the keys of by_purpose in insertion order, after the first n results
RECURSIVE PurposesSeen(_, _)
PurposesSeen(search_results, n) ==
    IF n = 0 THEN <<>>
    ELSE LET before == PurposesSeen(search_results, n - 1)
             purpose == search_results[n].query_purpose
         IN  IF \E k \in DOMAIN before : before[k] = purpose
                 THEN before ELSE Append(before, purpose)

\* by_purpose[purpose], in the order of the results
RECURSIVE WithPurpose(_, _)
WithPurpose(search_results, purpose) ==
    IF search_results = <<>> THEN <<>>
    ELSE (IF Head(search_results).query_purpose = purpose
              THEN <<Head(search_results)>> ELSE <<>>)
         \o WithPurpose(Tail(search_results), purpose)

SummaryLine(r) == "- " \o Prefix(r.title, 100) \o ": " \o Prefix(r.snippet, 150)

create_search_summary(search_results, brand_name) ==
    LET purposes == PurposesSeen(search_results, Len(search_results))
        Section(purpose) ==
            LET shown == Slice(WithPurpose(search_results, purpose), 0, 5)
            IN  <<"\n### " \o purpose>> \o [k \in DOMAIN shown |-> SummaryLine(shown[k])]
    IN  Join("\n", Flatten([k \in DOMAIN purposes |-> Section(purposes[k])]))

(***************************************************************************)
(* calculate_risk_scores                                                   *)
(***************************************************************************)
RiskLevels == {"CRITICAL", "HIGH", "MEDIUM", "LOW"}

\* sum(1 for c in conflicts if c.risk_level == level)
CountLevel(conflicts, level) ==
    Cardinality({i \in DOMAIN conflicts : conflicts[i].risk_level = level})

\* OverallRisk with the cap of 10 on the critical branch left out
OverallRisk_NoCap(critical_count, high_count, medium_count, total_conflicts) ==
    IF critical_count > 0 THEN 8 + critical_count
    ELSE IF high_count > 0 THEN Min(9, 5 + high_count)
    ELSE IF medium_count > 0 THEN Min(6, 3 + medium_count)
    ELSE Max(1, Min(3, total_conflicts))

\* OverallRisk with the high branch tested before the critical branch
OverallRisk_HighFirst(critical_count, high_count, medium_count, total_conflicts) ==
    IF high_count > 0 THEN Min(9, 5 + high_count)
    ELSE IF critical_count > 0 THEN Min(10, 8 + critical_count)
    ELSE IF medium_count > 0 THEN Min(6, 3 + medium_count)
    ELSE Max(1, Min(3, total_conflicts))

\* OverallRisk with the cap of 6 on the medium branch left out
OverallRisk_NoMediumCap(critical_count, high_count, medium_count, total_conflicts) ==
    IF critical_count > 0 THEN Min(10, 8 + critical_count)
    ELSE IF high_count > 0 THEN Min(9, 5 + high_count)
    ELSE IF medium_count > 0 THEN 3 + medium_count
    ELSE Max(1, Min(3, total_conflicts))

\* the if/elif chain that sets overall_risk
OverallRisk(critical_count, high_count, medium_count, total_conflicts) ==
    IF critical_count > 0 THEN Min(10, 8 + critical_count)
    ELSE IF high_count > 0 THEN Min(9, 5 + high_count)
    ELSE IF medium_count > 0 THEN Min(6, 3 + medium_count)
    ELSE Max(1, Min(3, total_conflicts))

\* the if/elif chain that sets success_prob
SuccessProb(critical_count, high_count, medium_count, total_conflicts) ==
    IF critical_count > 0 THEN Max(10, 30 - (critical_count * 10))
    ELSE IF high_count > 0 THEN Max(30, 60 - (high_count * 10))
    ELSE IF medium_count > 0 THEN Max(50, 80 - (medium_count * 5))
    ELSE Min(90, 85 + (IF total_conflicts = 0 THEN 5 ELSE 0))

\* the if/elif chain that sets opposition_prob
OppositionProb(critical_count, high_count, medium_count, total_conflicts) ==
    IF critical_count > 0 \/ high_count > 1
        THEN Min(90, 60 + (critical_count * 15) + (high_count * 10))
    ELSE IF high_count = 1 THEN 50
    ELSE IF medium_count > 0 THEN Min(40, 20 + (medium_count * 5))
    ELSE 10

\* calculate_risk_scores with total_conflicts summed over two lists only
calculate_risk_scores_TwoLists(trademark_conflicts, company_conflicts, common_law_conflicts) ==
    LET critical_count == CountLevel(trademark_conflicts, "CRITICAL")
                          + CountLevel(company_conflicts, "CRITICAL")
        high_count == CountLevel(trademark_conflicts, "HIGH")
                      + CountLevel(company_conflicts, "HIGH")
        medium_count == CountLevel(trademark_conflicts, "MEDIUM")
                        + CountLevel(company_conflicts, "MEDIUM")
        total_conflicts == Len(trademark_conflicts) + Len(company_conflicts)
    IN  [overall_risk_score |->
             OverallRisk(critical_count, high_count, medium_count, total_conflicts),
         registration_success_probability |->
             SuccessProb(critical_count, high_count, medium_count, total_conflicts),
         opposition_probability |->
             OppositionProb(critical_count, high_count, medium_count, total_conflicts),
         critical_conflicts_count |-> critical_count,
         high_risk_conflicts_count |-> high_count,
         total_conflicts_found |-> total_conflicts]

\* calculate_risk_scores with the medium tier counted over the common-law list too
calculate_risk_scores_CommonLawMedium(trademark_conflicts, company_conflicts, common_law_conflicts) ==
    LET critical_count == CountLevel(trademark_conflicts, "CRITICAL")
                          + CountLevel(company_conflicts, "CRITICAL")
        high_count == CountLevel(trademark_conflicts, "HIGH")
                      + CountLevel(company_conflicts, "HIGH")
        medium_count == CountLevel(trademark_conflicts, "MEDIUM")
                        + CountLevel(company_conflicts, "MEDIUM")
                        + CountLevel(common_law_conflicts, "MEDIUM")
        total_conflicts == Len(trademark_conflicts) + Len(company_conflicts)
                           + Len(common_law_conflicts)
    IN  [overall_risk_score |->
             OverallRisk(critical_count, high_count, medium_count, total_conflicts),
         registration_success_probability |->
             SuccessProb(critical_count, high_count, medium_count, total_conflicts),
         opposition_probability |->
             OppositionProb(critical_count, high_count, medium_count, total_conflicts),
         critical_conflicts_count |-> critical_count,
         high_risk_conflicts_count |-> high_count,
         total_conflicts_found |-> total_conflicts]

calculate_risk_scores(trademark_conflicts, company_conflicts, common_law_conflicts) ==
    LET critical_count == CountLevel(trademark_conflicts, "CRITICAL")
                          + CountLevel(company_conflicts, "CRITICAL")
        high_count == CountLevel(trademark_conflicts, "HIGH")
                      + CountLevel(company_conflicts, "HIGH")
        medium_count == CountLevel(trademark_conflicts, "MEDIUM")
                        + CountLevel(company_conflicts, "MEDIUM")
        total_conflicts == Len(trademark_conflicts) + Len(company_conflicts)
                           + Len(common_law_conflicts)
    IN  [overall_risk_score |->
             OverallRisk(critical_count, high_count, medium_count, total_conflicts),
         registration_success_probability |->
             SuccessProb(critical_count, high_count, medium_count, total_conflicts),
         opposition_probability |->
             OppositionProb(critical_count, high_count, medium_count, total_conflicts),
         critical_conflicts_count |-> critical_count,
         high_risk_conflicts_count |-> high_count,
         total_conflicts_found |-> total_conflicts]

(***************************************************************************)
(* SpecScore: calculate_risk_scores applied to bounded conflict lists.     *)
(***************************************************************************)
MaxScored == 3          \* longest trademark list and longest company list
MaxCommonLaw == 1       \* longest common-law list

NoScores == [overall_risk_score |-> 0]

SeqsUpTo(S, n) == UNION {[1..k -> S] : k \in 0..n}

ScoredRecords == [risk_level : RiskLevels]

CommonLawRecords == [risk_level : {"MEDIUM", "LOW"}]

\* no research run is in progress
NoRun ==
    /\ pc = "idle"
    /\ args = [brand_name |-> "", industry |-> "", category |-> "", countries |-> <<>>]
    /\ generated_variants = <<>>
    /\ queries = <<>>
    /\ batch_i = 0
    /\ calls = <<>>
    /\ all_search_results = <<>>
    /\ research = [brand_name |-> ""]
    /\ answers = <<>>
    /\ warned = FALSE
    /\ issued = <<>>

\* no function call is under study
NotCalled == [called |-> FALSE]

NoCall ==
    /\ call_in = <<>>
    /\ call_out = NotCalled

\* no pair of runs is under study
NoRuns == runs = <<>>

InitScore ==
    /\ NoRun
    /\ NoCall
    /\ NoRuns
    /\ sc_in \in [trademark_conflicts : SeqsUpTo(ScoredRecords, MaxScored),
                  company_conflicts : SeqsUpTo(ScoredRecords, MaxScored),
                  common_law_conflicts : SeqsUpTo(CommonLawRecords, MaxCommonLaw)]
    /\ sc_out = NoScores

Calculate ==
    /\ sc_out = NoScores
    /\ sc_out' = calculate_risk_scores(sc_in.trademark_conflicts,
                                       sc_in.company_conflicts,
                                       sc_in.common_law_conflicts)
    /\ UNCHANGED <<sc_in, runvars, callvars, runs>>

NextScore == Calculate

SpecScore == InitScore /\ [][NextScore]_vars

(***************************************************************************)
(* Spec: one run of conduct_trademark_research against a search provider   *)
(* that, for each query, returns hits, returns nothing, raises or never    *)
(* returns.                                                                *)
(***************************************************************************)
batch_size == 5

MaxHits == 1            \* the hits the provider returns in one run, in all

\* the arguments of the runs that are explored
RunInputs == {
    [brand_name |-> "Zeno", industry |-> "Technology", category |-> "SaaS",
     countries |-> <<"USA">>],
    [brand_name |-> "Bolt", industry |-> "", category |-> "", countries |-> <<>>] }

\* what a hit of the provider can be: a page that every extractor reads, a
\* legal page whose href has no scheme, a hit of empty strings
HitPool == {
    [title |-> "Zeno Pvt Ltd", url |-> "https://zeno.com/shop",
     snippet |-> "Registered trademark class 9, buy online, court case 2019"],
    [title |-> "Zeno v Acme case", url |-> "example.com/zeno",
     snippet |-> "trademark infringement judgment"],
    [title |-> "", url |-> "", snippet |-> ""] }

\* the dict execute_web_search builds for a hit r of the provider; origin is
\* history: the index of the query whose call built this dict
SearchResult(r, origin) ==
    [title |-> r.title, url |-> r.url, snippet |-> r.snippet,
     source |-> "DuckDuckGo", query_purpose |-> None, origin |-> origin]

\* TrademarkResearchResult(brand_name=..., industry=industry or "General", ...)
NewResult(a) ==
    [brand_name |-> a.brand_name,
     industry |-> IF a.industry # "" THEN a.industry ELSE "General",
     category |-> IF a.category # "" THEN a.category ELSE "General",
     countries |-> IF a.countries # <<>> THEN a.countries ELSE <<"India">>,
     trademark_conflicts |-> <<>>,
     company_conflicts |-> <<>>,
     common_law_conflicts |-> <<>>,
     legal_precedents |-> <<>>,
     nice_classification |-> [class_number |-> 0],
     overall_risk_score |-> 5,
     registration_success_probability |-> 50,
     opposition_probability |-> 50,
     critical_conflicts_count |-> 0,
     high_risk_conflicts_count |-> 0,
     total_conflicts_found |-> 0,
     search_results_summary |-> ""]

Pending == [status |-> "pending", results |-> <<>>]

\* a batch of one query more than batch_size
Batch_OneMore == Slice(queries, batch_i, batch_i + batch_size + 1)

\* batch = queries[i:i + batch_size]
Batch == Slice(queries, batch_i, batch_i + batch_size)

\* the hits the provider has returned so far in this run
RECURSIVE HitsReturned(_)
HitsReturned(n) == IF n = 0 THEN 0 ELSE Len(answers[n]) + HitsReturned(n - 1)

\* for r in results: r["query_purpose"] = query_info["purpose"]
Tagged(results, query_info) ==
    [k \in DOMAIN results |-> [results[k] EXCEPT !.query_purpose = query_info.purpose]]

\* the loop over enumerate(batch_results): what the first n results add
RECURSIVE BatchHits(_, _, _)
BatchHits(batch, batch_results, n) ==
    IF n = 0 THEN <<>>
    ELSE BatchHits(batch, batch_results, n - 1) \o Tagged(batch_results[n], batch[n])

Init ==
    /\ sc_in = [trademark_conflicts |-> <<>>, company_conflicts |-> <<>>,
                common_law_conflicts |-> <<>>]
    /\ sc_out = NoScores
    /\ pc = "start"
    /\ args \in RunInputs
    /\ generated_variants \in PhoneticVariantResults(args.brand_name)
    /\ queries = <<>>
    /\ batch_i = 0
    /\ calls = <<>>
    /\ all_search_results = <<>>
    /\ research = [brand_name |-> ""]
    /\ answers = <<>>
    /\ warned = FALSE
    /\ issued = <<>>
    /\ NoCall
    /\ NoRuns

\* the function up to the batch loop
Begin ==
    /\ pc = "start"
    /\ research' = [NewResult(args) EXCEPT !.nice_classification =
                        get_nice_classification(args.category, args.industry)]
    /\ queries' = generate_search_queries(args.brand_name, args.industry,
                      args.category, args.countries, generated_variants)
    /\ answers' = [q \in DOMAIN queries' |-> <<>>]
    /\ issued' = [q \in DOMAIN queries' |-> 0]
    /\ all_search_results' = <<>>
    /\ batch_i' = 0
    /\ pc' = "batch"
    /\ UNCHANGED <<scorevars, callvars, runs, args, generated_variants, calls, warned>>

\* tasks = [execute_web_search(q["query"]) for q in batch]; await gather starts
StartBatch ==
    /\ pc = "batch"
    /\ calls' = [j \in DOMAIN Batch |-> Pending]
    /\ warned' = FALSE
    /\ pc' = "gather"
    /\ UNCHANGED <<scorevars, callvars, runs, args, generated_variants, queries, batch_i,
                   all_search_results, research, answers, issued>>

\* execute_web_search awaits nothing (the DDGS call is synchronous), so the
\* tasks of gather run one after the other in the order of the list: call j
\* runs when every call before it has returned and it has not run yet
Runs(j) ==
    /\ pc = "gather"
    /\ j \in DOMAIN calls
    /\ calls[j].status = "pending"
    /\ \A k \in 1..(j - 1) : calls[k].status = "returned"

\* execute_web_search for the j-th query of the batch returns the provider's hits
ProviderReturns(j, hits) ==
    /\ Runs(j)
    /\ HitsReturned(Len(answers)) + Len(hits) <= MaxHits
    /\ calls' = [calls EXCEPT ![j] =
                    [status |-> "returned",
                     results |-> [k \in DOMAIN hits |->
                                     SearchResult(hits[k], batch_i + j)]]]
    /\ answers' = [answers EXCEPT ![batch_i + j] = hits]
    /\ issued' = [issued EXCEPT ![batch_i + j] = @ + 1]
    /\ UNCHANGED <<scorevars, callvars, runs, pc, args, generated_variants, queries, batch_i,
                   all_search_results, research, warned>>

\* ProviderRaises without the except clause: the exception leaves the run
ProviderRaises_Propagates(j) ==
    /\ Runs(j)
    /\ pc' = "raised"
    /\ warned' = TRUE
    /\ issued' = [issued EXCEPT ![batch_i + j] = @ + 1]
    /\ UNCHANGED <<scorevars, callvars, runs, args, generated_variants, queries, batch_i, calls,
                   all_search_results, research, answers>>

\* ProviderRaises followed by a second try of the same query
ProviderRaises_Retries(j) ==
    /\ Runs(j)
    /\ warned' = TRUE
    /\ issued' = [issued EXCEPT ![batch_i + j] = @ + 1]
    /\ UNCHANGED <<scorevars, callvars, runs, pc, args, generated_variants, queries, batch_i,
                   calls, all_search_results, research, answers>>

\* the provider raises: except Exception logs a warning and returns []
ProviderRaises(j) ==
    /\ Runs(j)
    /\ calls' = [calls EXCEPT ![j] = [status |-> "returned", results |-> <<>>]]
    /\ warned' = TRUE
    /\ issued' = [issued EXCEPT ![batch_i + j] = @ + 1]
    /\ UNCHANGED <<scorevars, callvars, runs, pc, args, generated_variants, queries, batch_i,
                   all_search_results, research, answers>>

\* the provider never returns: the timeout parameter is not handed to it
ProviderHangs(j) ==
    /\ Runs(j)
    /\ calls' = [calls EXCEPT ![j] = [status |-> "hung", results |-> <<>>]]
    /\ issued' = [issued EXCEPT ![batch_i + j] = @ + 1]
    /\ UNCHANGED <<scorevars, callvars, runs, pc, args, generated_variants, queries, batch_i,
                   all_search_results, research, answers, warned>>

\* GatherBatch appending nothing of a batch in which a call failed
GatherBatch_DropsOnFailure ==
    /\ pc = "gather"
    /\ \A j \in DOMAIN calls : calls[j].status = "returned"
    /\ all_search_results' =
           IF warned THEN all_search_results
           ELSE all_search_results
                    \o BatchHits(Batch, [j \in DOMAIN calls |-> calls[j].results],
                                 Len(calls))
    /\ pc' = IF batch_i + batch_size < Len(queries) THEN "sleep" ELSE "extract"
    /\ UNCHANGED <<scorevars, callvars, runs, args, generated_variants, queries, batch_i, calls,
                   research, answers, warned, issued>>

\* GatherBatch tagging every result with the batch's first query
GatherBatch_TagsByFirst ==
    /\ pc = "gather"
    /\ \A j \in DOMAIN calls : calls[j].status = "returned"
    /\ all_search_results' =
           all_search_results
               \o BatchHits([j \in DOMAIN calls |-> Batch[1]],
                            [j \in DOMAIN calls |-> calls[j].results], Len(calls))
    /\ pc' = IF batch_i + batch_size < Len(queries) THEN "sleep" ELSE "extract"
    /\ UNCHANGED <<scorevars, callvars, runs, args, generated_variants, queries, batch_i, calls,
                   research, answers, warned, issued>>

\* GatherBatch appending the results of the batch from its last call to its first
GatherBatch_LastFirst ==
    /\ pc = "gather"
    /\ \A j \in DOMAIN calls : calls[j].status = "returned"
    /\ all_search_results' =
           all_search_results
               \o BatchHits([j \in DOMAIN calls |-> Batch[Len(calls) + 1 - j]],
                            [j \in DOMAIN calls |-> calls[Len(calls) + 1 - j].results],
                            Len(calls))
    /\ pc' = IF batch_i + batch_size < Len(queries) THEN "sleep" ELSE "extract"
    /\ UNCHANGED <<scorevars, callvars, runs, args, generated_variants, queries, batch_i, calls,
                   research, answers, warned, issued>>

\* gather returns; the results are tagged and appended
GatherBatch ==
    /\ pc = "gather"
    /\ \A j \in DOMAIN calls : calls[j].status = "returned"
    /\ all_search_results' =
           all_search_results
               \o BatchHits(Batch, [j \in DOMAIN calls |-> calls[j].results], Len(calls))
    /\ pc' = IF batch_i + batch_size < Len(queries) THEN "sleep" ELSE "extract"
    /\ UNCHANGED <<scorevars, callvars, runs, args, generated_variants, queries, batch_i, calls,
                   research, answers, warned, issued>>

\* await asyncio.sleep(1), then the next i of range(0, len(queries), batch_size)
Sleep ==
    /\ pc = "sleep"
    /\ batch_i' = batch_i + batch_size
    /\ pc' = "batch"
    /\ UNCHANGED <<scorevars, callvars, runs, args, generated_variants, queries, calls,
                   all_search_results, research, answers, warned, issued>>

\* the extraction, the scoring and the summary, up to return result; an
\* exception of an extractor leaves the function
Extract ==
    /\ pc = "extract"
    /\ IF LegalPrecedentsRaise(all_search_results)
           THEN /\ pc' = "raised"
                /\ UNCHANGED research
           ELSE \E tm \in {extract_trademark_conflicts(all_search_results,
                                args.brand_name, generated_variants)},
                   co \in {extract_company_conflicts(all_search_results,
                                args.brand_name, generated_variants)},
                   lp \in {extract_legal_precedents(all_search_results)},
                   cl \in {extract_common_law_conflicts(all_search_results,
                                args.brand_name, args.industry)} :
                \E risk_scores \in {calculate_risk_scores(tm, co, cl)} :
                    /\ research' = [research EXCEPT
                           !.trademark_conflicts = tm,
                           !.company_conflicts = co,
                           !.legal_precedents = lp,
                           !.common_law_conflicts = cl,
                           !.overall_risk_score = risk_scores.overall_risk_score,
                           !.registration_success_probability =
                               risk_scores.registration_success_probability,
                           !.opposition_probability = risk_scores.opposition_probability,
                           !.critical_conflicts_count =
                               risk_scores.critical_conflicts_count,
                           !.high_risk_conflicts_count =
                               risk_scores.high_risk_conflicts_count,
                           !.total_conflicts_found = risk_scores.total_conflicts_found,
                           !.search_results_summary =
                               create_search_summary(all_search_results, args.brand_name)]
                    /\ pc' = "done"
    /\ UNCHANGED <<scorevars, callvars, runs, args, generated_variants, queries, batch_i, calls,
                   all_search_results, answers, warned, issued>>

\* the answers the provider can give to one call
ProviderAnswers == SeqsUpTo(HitPool, MaxHits)

Next ==
    \/ Begin
    \/ StartBatch
    \/ \E j \in DOMAIN calls : \E hits \in ProviderAnswers : ProviderReturns(j, hits)
    \/ \E j \in DOMAIN calls : ProviderRaises(j)
    \/ \E j \in DOMAIN calls : ProviderHangs(j)
    \/ GatherBatch
    \/ Sleep
    \/ Extract

Spec == Init /\ [][Next]_vars

\* a step of the function up to the end of the batch loop, or of the call
\* that runs
RetrievalStep ==
    \/ Begin
    \/ StartBatch
    \/ \E j \in DOMAIN calls : \E hits \in ProviderAnswers : ProviderReturns(j, hits)
    \/ \E j \in DOMAIN calls : ProviderRaises(j)
    \/ \E j \in DOMAIN calls : ProviderHangs(j)
    \/ GatherBatch
    \/ Sleep

\* the event loop runs the function as long as it has a step to take; the
\* call that runs does what the provider does, and a call that hangs leaves
\* no step to take
FairSpec == Spec /\ WF_vars(RetrievalStep)

(***************************************************************************)
(* One call of get_nice_classification.                                    *)
(***************************************************************************)
\* what category and industry can be
ClassifyTerms == {"", "SaaS", "Technology", "Widgets", "Robotics", "Fashion Apparel",
                  "e", "Zzz", "Happy", "Toys", "Legal"}

InitClassify ==
    /\ sc_in = [trademark_conflicts |-> <<>>, company_conflicts |-> <<>>,
                common_law_conflicts |-> <<>>]
    /\ sc_out = NoScores
    /\ NoRun
    /\ NoRuns
    /\ call_in \in [category : ClassifyTerms, industry : ClassifyTerms]
    /\ call_out = NotCalled

Classify ==
    /\ call_out = NotCalled
    /\ call_out' = [called |-> TRUE,
                    value |-> get_nice_classification(call_in.category, call_in.industry)]
    /\ UNCHANGED <<call_in, scorevars, runvars, runs>>

NextClassify == Classify

SpecClassify == InitClassify /\ [][NextClassify]_vars

(***************************************************************************)
(* One call of get_nice_classification whose category is a key of the      *)
(* table.                                                                  *)
(***************************************************************************)
KeyIndustries == {"", "Finance", "Education", "Technology", "Zzz"}

InitKeys ==
    /\ sc_in = [trademark_conflicts |-> <<>>, company_conflicts |-> <<>>,
                common_law_conflicts |-> <<>>]
    /\ sc_out = NoScores
    /\ NoRun
    /\ NoRuns
    /\ call_in \in [category : {NICE_CLASSIFICATION[k].key : k \in DOMAIN NICE_CLASSIFICATION},
                     industry : KeyIndustries]
    /\ call_out = NotCalled

NextKeys == Classify

SpecKeys == InitKeys /\ [][NextKeys]_vars

(***************************************************************************)
(* One call of generate_phonetic_variants.                                 *)
(***************************************************************************)
\* what brand_name can be: names with no variant, with a few, with more than 5
VariantBrands == {"", "a", "e", "Zeno", "Bolt", "Nike", "Mia"}

InitVariants ==
    /\ sc_in = [trademark_conflicts |-> <<>>, company_conflicts |-> <<>>,
                common_law_conflicts |-> <<>>]
    /\ sc_out = NoScores
    /\ NoRun
    /\ NoRuns
    /\ call_in \in [brand_name : VariantBrands]
    /\ call_out = NotCalled

GenerateVariants ==
    /\ call_out = NotCalled
    /\ \E variants \in PhoneticVariantResults(call_in.brand_name) :
           call_out' = [called |-> TRUE, value |-> variants]
    /\ UNCHANGED <<call_in, scorevars, runvars, runs>>

NextVariants == GenerateVariants

SpecVariants == InitVariants /\ [][NextVariants]_vars

(***************************************************************************)
(* One call of generate_search_queries.                                    *)
(***************************************************************************)
MaxCountries == 5

CountryList == <<"India", "USA", "UK", "UAE", "Japan", "France", "Kenya", "Peru">>

\* brands with 2, 0 and 5 phonetic variants
QueryBrands == {"Zeno", "Bolt", "Mia"}

QueryInputs ==
    { [brand_name |-> b, industry |-> f[1], category |-> f[2],
       countries |-> SubSeq(CountryList, 1, n)] :
          b \in QueryBrands,
          f \in {<<"Technology", "SaaS">>, <<"", "">>},
          n \in 0..MaxCountries }

InitQueries ==
    /\ sc_in = [trademark_conflicts |-> <<>>, company_conflicts |-> <<>>,
                common_law_conflicts |-> <<>>]
    /\ sc_out = NoScores
    /\ NoRun
    /\ NoRuns
    /\ call_in \in QueryInputs
    /\ call_out = NotCalled

GenerateQueries ==
    /\ call_out = NotCalled
    /\ \E variants \in PhoneticVariantResults(call_in.brand_name) :
           call_out' = [called |-> TRUE,
                        variants |-> variants,
                        value |-> generate_search_queries(call_in.brand_name,
                                      call_in.industry, call_in.category,
                                      call_in.countries, variants)]
    /\ UNCHANGED <<call_in, scorevars, runvars, runs>>

NextQueries == GenerateQueries

SpecQueries == InitQueries /\ [][NextQueries]_vars

(***************************************************************************)
(* One call of one of the four extractors on a list of search results.     *)
(***************************************************************************)
MaxResults == 2         \* the length of the list handed to the extractor

\* str * n
RECURSIVE Repeat(_, _)
Repeat(str, n) ==
    IF n = 0 THEN ""
    ELSE IF n = 1 THEN str
    ELSE Repeat(str, n \div 2) \o Repeat(str, n - n \div 2)

Hit(title, url, snippet) == [title |-> title, url |-> url, snippet |-> snippet]

\* the hit of scenario B: a company title, a snippet with "registered" and "class N"
ScenarioB(N) ==
    Hit("ZenTech Pvt Ltd", "https://www.zaubacorp.com/zentech",
        "Registered trademark class " \o N)

ScenarioClasses == {"9", "42"}

\* a title whose case name is longer than the 150 characters a record keeps
LongTitle(defendant) == "Zen" \o Repeat("a", 150) \o " v " \o defendant

\* hits about the brand "Zen", as the provider can return them
PendingHit ==
    Hit("ZenTech Pvt Ltd", "https://zentech.com/shop",
        "Pending application class 35, buy online")

RegistryHit == Hit("\"ZEN\" Official Store", "https://ipindia.gov.in/zen", "buy zen online")

EmptyHit == Hit("", "", "")

MarkHits ==
    { ScenarioB(N) : N \in ScenarioClasses } \cup
    { PendingHit, RegistryHit, EmptyHit,
      Hit("\"Zenn\" Labs Limited", "https://trademarking.in/zenn",
          "objected mark 1234567") }

CaseHits ==
    { Hit("Zen v Acme", "https://indiankanoon.org/doc/1",
          "Delhi High Court 2019 judgment"),
      Hit("ZEN v ACME", "example.com/zen", "passing off"),
      Hit(LongTitle("Acme"), "https://a.b/c", "court"),
      Hit(LongTitle("Bolt"), "https://a.b/d", "tribunal"),
      ScenarioB("9") }

WipoHit == Hit("Zen Store", "https://WIPO.int/zen", "order zen now")

InstagramHit == Hit("Zen Store", "https://instagram.com/zen", "follow @zen technology")

BusinessHits ==
    { WipoHit, InstagramHit,
      Hit("@ZEN Store", "https://zenstore.com", "order zen online"),
      Hit("@zen shop", "https://facebook.com/zen", "zen technology"),
      RegistryHit, EmptyHit }

Extractors == {"trademark", "company", "legal", "common_law"}

\* the hits an extractor is tried on
ExtractPool(extractor) ==
    CASE extractor = "legal" -> CaseHits
      [] extractor = "common_law" -> BusinessHits
      [] OTHER -> MarkHits

\* the orders generate_phonetic_variants can give inside an extractor that
\* calls it; the same in every call of one process
VariantOrders(extractor, brand_name) ==
    IF extractor \in {"trademark", "company"}
        THEN PhoneticVariantResults(brand_name)
        ELSE {<<>>}

ExtractInputs ==
    UNION { [extractor : {e},
             search_results : SeqsUpTo(ExtractPool(e), MaxResults),
             brand_name : {"Zen"},
             industry : {"Technology"},
             phonetic_variants : VariantOrders(e, "Zen")] : e \in Extractors }

InitExtract ==
    /\ sc_in = [trademark_conflicts |-> <<>>, company_conflicts |-> <<>>,
                common_law_conflicts |-> <<>>]
    /\ sc_out = NoScores
    /\ NoRun
    /\ NoRuns
    /\ call_in \in ExtractInputs
    /\ call_out = NotCalled

\* what an extractor hands back: its list, or the exception that ended it
Returned(list) == [called |-> TRUE, raised |-> FALSE, value |-> list]

Raised == [called |-> TRUE, raised |-> TRUE, value |-> <<>>]

\* what the call of the extractor named in call hands back
Outcome(call) ==
    CASE call.extractor = "trademark" ->
             Returned(extract_trademark_conflicts(call.search_results,
                                                  call.brand_name,
                                                  call.phonetic_variants))
      [] call.extractor = "company" ->
             Returned(extract_company_conflicts(call.search_results,
                                                call.brand_name,
                                                call.phonetic_variants))
      [] call.extractor = "legal" ->
             IF LegalPrecedentsRaise(call.search_results)
                 THEN Raised
                 ELSE Returned(extract_legal_precedents(call.search_results))
      [] call.extractor = "common_law" ->
             Returned(extract_common_law_conflicts(call.search_results,
                                                   call.brand_name, call.industry))

ExtractTrademarks ==
    /\ call_out = NotCalled
    /\ call_in.extractor = "trademark"
    /\ call_out' = Returned(extract_trademark_conflicts(call_in.search_results,
                        call_in.brand_name, call_in.phonetic_variants))
    /\ UNCHANGED <<call_in, scorevars, runvars, runs>>

ExtractCompanies ==
    /\ call_out = NotCalled
    /\ call_in.extractor = "company"
    /\ call_out' = Returned(extract_company_conflicts(call_in.search_results,
                        call_in.brand_name, call_in.phonetic_variants))
    /\ UNCHANGED <<call_in, scorevars, runvars, runs>>

ExtractPrecedents ==
    /\ call_out = NotCalled
    /\ call_in.extractor = "legal"
    /\ call_out' = IF LegalPrecedentsRaise(call_in.search_results)
                       THEN Raised
                       ELSE Returned(extract_legal_precedents(call_in.search_results))
    /\ UNCHANGED <<call_in, scorevars, runvars, runs>>

ExtractCommonLaw ==
    /\ call_out = NotCalled
    /\ call_in.extractor = "common_law"
    /\ call_out' = Returned(extract_common_law_conflicts(call_in.search_results,
                        call_in.brand_name, call_in.industry))
    /\ UNCHANGED <<call_in, scorevars, runvars, runs>>

NextExtract ==
    \/ ExtractTrademarks
    \/ ExtractCompanies
    \/ ExtractPrecedents
    \/ ExtractCommonLaw

SpecExtract == InitExtract /\ [][NextExtract]_vars

(***************************************************************************)
(* SpecRuns: two runs of conduct_trademark_research on one event loop. A   *)
(* run gives way to the other at await asyncio.gather and at await         *)
(* asyncio.sleep; the calls of the two runs are interleaved in any order.  *)
(* runs[r] holds the local variables of run r.                             *)
(***************************************************************************)
RunIds == {1, 2}

\* the arguments of the two runs: the same brand, so that names seen by one
\* run are names the other would see
RunArgs ==
    <<[brand_name |-> "Zeno", industry |-> "Technology", category |-> "SaaS",
       countries |-> <<"USA">>],
      [brand_name |-> "Zeno", industry |-> "", category |-> "", countries |-> <<>>]>>

\* the queries the provider has a hit for
AnsweredQueries == {2, 7}

\* the hits it has: the two pages of HitPool that are not empty
RunHitPool == {r \in HitPool : r.title # ""}

\* the locals of a run that has not started
NewRun(a, variants) ==
    [pc |-> "start", args |-> a, variants |-> variants, queries |-> <<>>,
     batch_i |-> 0, calls |-> <<>>, all_search_results |-> <<>>,
     research |-> [brand_name |-> ""], answers |-> <<>>]

InitRuns ==
    /\ sc_in = [trademark_conflicts |-> <<>>, company_conflicts |-> <<>>,
                common_law_conflicts |-> <<>>]
    /\ sc_out = NoScores
    /\ NoRun
    /\ NoCall
    /\ \E variants \in PhoneticVariantResults("Zeno") :
           runs = [r \in RunIds |-> NewRun(RunArgs[r], variants)]

\* the hits the provider has returned to both runs
RECURSIVE RunHitsReturned(_, _)
RunHitsReturned(run, n) ==
    IF n = 0 THEN 0 ELSE Len(run.answers[n]) + RunHitsReturned(run, n - 1)

\* batch = queries[i:i + batch_size] of a run
RunBatch(run) == Slice(run.queries, run.batch_i, run.batch_i + batch_size)

\* the function up to the batch loop, in run r
RunBegin(r) ==
    /\ runs[r].pc = "start"
    /\ \E generated \in {generate_search_queries(runs[r].args.brand_name,
                             runs[r].args.industry, runs[r].args.category,
                             runs[r].args.countries, runs[r].variants)} :
           runs' = [runs EXCEPT ![r] =
               [@ EXCEPT !.research =
                             [NewResult(runs[r].args) EXCEPT !.nice_classification =
                                  get_nice_classification(runs[r].args.category,
                                                          runs[r].args.industry)],
                         !.queries = generated,
                         !.answers = [q \in DOMAIN generated |-> <<>>],
                         !.pc = "batch"]]
    /\ UNCHANGED <<scorevars, runvars, callvars>>

\* the tasks of a batch of run r are created and the run awaits gather
RunStartBatch(r) ==
    /\ runs[r].pc = "batch"
    /\ runs' = [runs EXCEPT ![r] =
           [@ EXCEPT !.calls = [j \in DOMAIN RunBatch(runs[r]) |-> Pending],
                     !.pc = "gather"]]
    /\ UNCHANGED <<scorevars, runvars, callvars>>

\* the next call of run r runs to its end: the provider returns hits, or
\* returns nothing or raises, which both hand [] to the run
RunProviderReturns(r, hits) ==
    /\ runs[r].pc = "gather"
    /\ \E j \in DOMAIN runs[r].calls :
           /\ runs[r].calls[j].status = "pending"
           /\ \A k \in 1..(j - 1) : runs[r].calls[k].status = "returned"
           /\ hits # <<>> => runs[r].batch_i + j \in AnsweredQueries
           /\ RunHitsReturned(runs[1], Len(runs[1].answers))
                  + RunHitsReturned(runs[2], Len(runs[2].answers)) + Len(hits) <= MaxHits
           /\ runs' = [runs EXCEPT ![r] =
                  [@ EXCEPT !.calls[j] =
                                [status |-> "returned",
                                 results |-> [k \in DOMAIN hits |->
                                    SearchResult(hits[k], runs[r].batch_i + j)]],
                            !.answers[runs[r].batch_i + j] = hits]]
    /\ UNCHANGED <<scorevars, runvars, callvars>>

\* RunGatherBatch with one list for all runs: the results of the batch are
\* appended to the list of every run
RunGatherBatch_SharedList(r) ==
    /\ runs[r].pc = "gather"
    /\ \A j \in DOMAIN runs[r].calls : runs[r].calls[j].status = "returned"
    /\ \E found \in {BatchHits(RunBatch(runs[r]),
                         [j \in DOMAIN runs[r].calls |-> runs[r].calls[j].results],
                         Len(runs[r].calls))} :
           runs' = [o \in RunIds |->
               IF o = r
                   THEN [runs[r] EXCEPT
                            !.all_search_results = @ \o found,
                            !.pc = IF runs[r].batch_i + batch_size < Len(runs[r].queries)
                                       THEN "sleep" ELSE "extract"]
                   ELSE [runs[o] EXCEPT !.all_search_results = @ \o found]]
    /\ UNCHANGED <<scorevars, runvars, callvars>>

\* gather returns in run r; the results are tagged and appended to its list
RunGatherBatch(r) ==
    /\ runs[r].pc = "gather"
    /\ \A j \in DOMAIN runs[r].calls : runs[r].calls[j].status = "returned"
    /\ runs' = [runs EXCEPT ![r] =
           [@ EXCEPT !.all_search_results =
                         @ \o BatchHits(RunBatch(runs[r]),
                                  [j \in DOMAIN runs[r].calls |-> runs[r].calls[j].results],
                                  Len(runs[r].calls)),
                     !.pc = IF runs[r].batch_i + batch_size < Len(runs[r].queries)
                                THEN "sleep" ELSE "extract"]]
    /\ UNCHANGED <<scorevars, runvars, callvars>>

\* await asyncio.sleep(1) returns in run r
RunSleep(r) ==
    /\ runs[r].pc = "sleep"
    /\ runs' = [runs EXCEPT ![r] =
           [@ EXCEPT !.batch_i = @ + batch_size, !.pc = "batch"]]
    /\ UNCHANGED <<scorevars, runvars, callvars>>

\* result with the fields the function assigns after the batch loop
Assigned(initial, tm, co, lp, cl, risk_scores, summary) ==
    [initial EXCEPT
        !.trademark_conflicts = tm,
        !.company_conflicts = co,
        !.legal_precedents = lp,
        !.common_law_conflicts = cl,
        !.overall_risk_score = risk_scores.overall_risk_score,
        !.registration_success_probability =
            risk_scores.registration_success_probability,
        !.opposition_probability = risk_scores.opposition_probability,
        !.critical_conflicts_count = risk_scores.critical_conflicts_count,
        !.high_risk_conflicts_count = risk_scores.high_risk_conflicts_count,
        !.total_conflicts_found = risk_scores.total_conflicts_found,
        !.search_results_summary = summary]

\* the scoring of the three lists that are scored, then the assignments
WithScores(initial, tm, co, lp, cl, summary) ==
    CHOOSE result \in {Assigned(initial, tm, co, lp, cl, risk_scores, summary) :
                          risk_scores \in {calculate_risk_scores(tm, co, cl)}} : TRUE

\* the result conduct_trademark_research builds from its flat list: the
\* extraction, the scoring and the summary
Researched(initial, search_results, a, variants) ==
    CHOOSE result \in
        {WithScores(initial, tm, co, lp, cl, summary) :
            tm \in {extract_trademark_conflicts(search_results, a.brand_name, variants)},
            co \in {extract_company_conflicts(search_results, a.brand_name, variants)},
            lp \in {extract_legal_precedents(search_results)},
            cl \in {extract_common_law_conflicts(search_results, a.brand_name, a.industry)},
            summary \in {create_search_summary(search_results, a.brand_name)}} : TRUE

\* the rest of the function in run r, which has no await
RunExtract(r) ==
    /\ runs[r].pc = "extract"
    /\ IF LegalPrecedentsRaise(runs[r].all_search_results)
           THEN runs' = [runs EXCEPT ![r] = [@ EXCEPT !.pc = "raised"]]
           ELSE \E result \in {Researched(runs[r].research, runs[r].all_search_results,
                                          runs[r].args, runs[r].variants)} :
                    runs' = [runs EXCEPT ![r] =
                                [@ EXCEPT !.research = result, !.pc = "done"]]
    /\ UNCHANGED <<scorevars, runvars, callvars>>

NextRuns ==
    \/ \E r \in RunIds : RunBegin(r)
    \/ \E r \in RunIds : RunStartBatch(r)
    \/ \E r \in RunIds : \E hits \in SeqsUpTo(RunHitPool, 1) : RunProviderReturns(r, hits)
    \/ \E r \in RunIds : RunGatherBatch(r)
    \/ \E r \in RunIds : RunSleep(r)
    \/ \E r \in RunIds : RunExtract(r)

SpecRuns == InitRuns /\ [][NextRuns]_vars

(***************************************************************************)
(* SpecBatchFailure: the run of Spec in which, besides, an exception that  *)
(* is none of the calls' (a MemoryError, say) can be raised inside the try *)
(* block of the batch loop.                                                *)
(***************************************************************************)
\* BatchRaises without the except clause of the loop: the run ends
BatchRaises_Aborts(n) ==
    /\ pc = "gather"
    /\ \A j \in DOMAIN calls : calls[j].status = "returned"
    /\ n < Len(calls)
    /\ pc' = "raised"
    /\ UNCHANGED <<scorevars, callvars, runs, args, generated_variants, queries, batch_i, calls,
                   all_search_results, research, answers, warned, issued>>

\* an exception is raised in the try block when the results of the first n
\* calls of the batch have been tagged and appended (n = 0: in gather
\* itself); except Exception logs an error and the loop goes on
BatchRaises(n) ==
    /\ pc = "gather"
    /\ \A j \in DOMAIN calls : calls[j].status = "returned"
    /\ n < Len(calls)
    /\ all_search_results' =
           all_search_results
               \o BatchHits(Batch, [j \in DOMAIN calls |-> calls[j].results], n)
    /\ pc' = IF batch_i + batch_size < Len(queries) THEN "sleep" ELSE "extract"
    /\ UNCHANGED <<scorevars, callvars, runs, args, generated_variants, queries, batch_i, calls,
                   research, answers, warned, issued>>

\* the run for the brand the hits are about
InitBatchFailure == Init /\ args.brand_name = "Zeno"

\* the steps of Spec but the call that hangs, after which no batch is
\* gathered; the provider has hits for the queries of AnsweredQueries
NextBatchFailure ==
    \/ Begin
    \/ StartBatch
    \/ \E j \in DOMAIN calls : \E hits \in ProviderAnswers :
           /\ hits # <<>> => batch_i + j \in AnsweredQueries
           /\ ProviderReturns(j, hits)
    \/ \E j \in DOMAIN calls : ProviderRaises(j)
    \/ GatherBatch
    \/ \E n \in 0..(batch_size - 1) : BatchRaises(n)
    \/ Sleep
    \/ Extract

SpecBatchFailure == InitBatchFailure /\ [][NextBatchFailure]_vars

(***************************************************************************)
(* One run in which the provider has several hits for one query and hits   *)
(* for several queries of a batch, and the calls of a batch end in any     *)
(* order: the order of the list, which is the one execute_web_search has   *)
(* as long as it awaits nothing, is one of them.                           *)
(***************************************************************************)
MaxOrderedHits == 3     \* the hits the provider returns in one run, in all
MaxPerQuery == 2        \* the hits it returns to one call

\* the queries the provider has hits for: two of the first batch, one of the second
OrderedQueries == {2, 4, 7}

OrderedAnswers == SeqsUpTo(RunHitPool, MaxPerQuery)

\* call j of the batch returns hits, whichever calls have returned before it
ProviderReturnsInAnyOrder(j, hits) ==
    /\ pc = "gather"
    /\ j \in DOMAIN calls
    /\ calls[j].status = "pending"
    /\ HitsReturned(Len(answers)) + Len(hits) <= MaxOrderedHits
    /\ calls' = [calls EXCEPT ![j] =
                    [status |-> "returned",
                     results |-> [k \in DOMAIN hits |->
                                     SearchResult(hits[k], batch_i + j)]]]
    /\ answers' = [answers EXCEPT ![batch_i + j] = hits]
    /\ issued' = [issued EXCEPT ![batch_i + j] = @ + 1]
    /\ UNCHANGED <<scorevars, callvars, runs, pc, args, generated_variants, queries, batch_i,
                   all_search_results, research, warned>>

InitOrder == Init /\ args.brand_name = "Zeno"

NextOrder ==
    \/ Begin
    \/ StartBatch
    \/ \E j \in DOMAIN calls : \E hits \in OrderedAnswers :
           /\ hits # <<>> => batch_i + j \in OrderedQueries
           /\ ProviderReturnsInAnyOrder(j, hits)
    \/ GatherBatch
    \/ Sleep
    \/ Extract

SpecOrder == InitOrder /\ [][NextOrder]_vars

(***************************************************************************)
(* One call of extract_common_law_conflicts on hits of registry and legal  *)
(* sites that mention the brand with a business keyword.                   *)
(***************************************************************************)
\* one url for each marker of is_registry, in several letter cases
RegistryUrls ==
    {"https://trademarking.in/zen", "https://ipindia.gov.in/zen", "https://WIPO.int/zen",
     "https://www.USPTO.gov/zen", "https://Tofler.in/zen", "https://www.MCA.gov.in/zen",
     "https://eCourts.gov.in/zen", "https://LEGAL.example/zen", "https://zen-Law.example"}

BusinessUrls == {"https://instagram.com/zen", "https://zen.example/"}

\* a hit that mentions the brand, with one of the business keywords
BusinessHit(url, k) == Hit("Zen", url, "zen " \o business_keywords[k])

RegistryInputs ==
    {[extractor |-> "common_law",
      search_results |-> list,
      brand_name |-> "Zen",
      industry |-> "Technology",
      phonetic_variants |-> <<>>] :
        list \in UNION {{<<BusinessHit(url, k)>>,
                         <<BusinessHit(url, k), InstagramHit>>,
                         <<InstagramHit, BusinessHit(url, k)>>} :
                            url \in RegistryUrls \cup BusinessUrls,
                            k \in DOMAIN business_keywords}}

InitRegistry ==
    /\ sc_in = [trademark_conflicts |-> <<>>, company_conflicts |-> <<>>,
                common_law_conflicts |-> <<>>]
    /\ sc_out = NoScores
    /\ NoRun
    /\ NoRuns
    /\ call_in \in RegistryInputs
    /\ call_out = NotCalled

NextRegistry == ExtractCommonLaw

SpecRegistry == InitRegistry /\ [][NextRegistry]_vars

(***************************************************************************)
(* One call of extract_trademark_conflicts on a hit that names the brand   *)
(* and carries up to three status words, in the title and the snippet.     *)
(***************************************************************************)
\* the words a hit can carry in its snippet: a status keyword or nothing
SnippetWords == {"", "registered", "pending", "objected", "opposed", "abandoned"}

\* the words a hit can carry in its title, in other letter cases
TitleWords == {"", "Registered", "OPPOSED"}

\* a hit whose title names the brand in quotes
StatusHit(title_word, first, second) ==
    Hit("\"Zen\" " \o title_word, "https://ipindia.gov.in/zen",
        "mark " \o first \o " then " \o second)

StatusInputs ==
    {[extractor |-> "trademark",
      search_results |-> <<StatusHit(title_word, first, second)>>,
      brand_name |-> "Zen",
      industry |-> "Technology",
      phonetic_variants |-> variants] :
        title_word \in TitleWords, first \in SnippetWords, second \in SnippetWords,
        variants \in VariantOrders("trademark", "Zen")}

InitStatus ==
    /\ sc_in = [trademark_conflicts |-> <<>>, company_conflicts |-> <<>>,
                common_law_conflicts |-> <<>>]
    /\ sc_out = NoScores
    /\ NoRun
    /\ NoRuns
    /\ call_in \in StatusInputs
    /\ call_out = NotCalled

NextStatus == ExtractTrademarks

SpecStatus == InitStatus /\ [][NextStatus]_vars

(***************************************************************************)
(* One call of one extractor on hits that mention the brand "Zen", only    *)
(* its variant "sen", or neither, for an industry that is given or empty.  *)
(***************************************************************************)
\* a shop and company named after the variant "sen"; "zen" occurs nowhere
VariantOnlyHit ==
    Hit("Sen Store Private Limited - \"Sen\"", "https://senstore.com/shop",
        "buy sen online, a registered company")

\* the same shop named after the brand
BrandHit ==
    Hit("Zen Store Private Limited - \"Zen\"", "https://zenstore.com/shop",
        "buy zen online, a registered company")

\* a shop named after the brand whose text names the industry
IndustryHit == Hit("Zen Shop", "https://zen.example/", "zen technology online")

\* a court case between two other names
UnrelatedCase == Hit("Acme v Bolt", "https://indiankanoon.org/doc/2", "High Court judgment")

\* a shop and company with another name
UnrelatedShop == Hit("Acme Store Limited", "https://acme.com/shop", "buy acme online company")

RelevanceHits == {VariantOnlyHit, BrandHit, IndustryHit, UnrelatedCase, UnrelatedShop}

\* the industries a run can pass on: a name, or nothing
RelevanceIndustries(extractor) ==
    IF extractor = "common_law" THEN {"Technology", ""} ELSE {"Technology"}

RelevanceInputs ==
    UNION { [extractor : {e},
             search_results : SeqsUpTo(RelevanceHits, MaxResults),
             brand_name : {"Zen"},
             industry : RelevanceIndustries(e),
             phonetic_variants : VariantOrders(e, "Zen")] : e \in Extractors }

InitRelevance ==
    /\ sc_in = [trademark_conflicts |-> <<>>, company_conflicts |-> <<>>,
                common_law_conflicts |-> <<>>]
    /\ sc_out = NoScores
    /\ NoRun
    /\ NoRuns
    /\ call_in \in RelevanceInputs
    /\ call_out = NotCalled

NextRelevance ==
    \/ ExtractTrademarks
    \/ ExtractCompanies
    \/ ExtractPrecedents
    \/ ExtractCommonLaw

SpecRelevance == InitRelevance /\ [][NextRelevance]_vars

(***************************************************************************)
(* Claims about get_nice_classification, checked under SpecClassify.       *)
(***************************************************************************)
\* a keyword of the table occurs in the term
NamesKeyword(term) ==
    \E k \in DOMAIN NICE_CLASSIFICATION :
        Contains(Lower(term), NICE_CLASSIFICATION[k].key)

DefaultClassification ==
    [class_number |-> 35,
     class_description |-> "Advertising, business management, office functions",
     matched_term |-> "general business"]

\* C11 (as stated): the call returns a record of class_number,
\* class_description and matched_term, and when neither category nor industry
\* names a keyword of the table the record is the default, class 35 with
\* matched_term "general business".
C11_TotalWithDefault ==
    call_out.called =>
        /\ DOMAIN call_out.value = {"class_number", "class_description", "matched_term"}
        /\ (~NamesKeyword(call_in.category) /\ ~NamesKeyword(call_in.industry)) =>
               /\ call_out.value = DefaultClassification
               /\ call_out.value.class_number = 35
               /\ call_out.value.matched_term = "general business"

\* C29 (as stated), checked under SpecKeys: a category that is a keyword of
\* the table gets the class the table gives that keyword, whatever the
\* industry ("fintech" 36, "edtech" 41).
C29_KeysClassifyAsThemselves ==
    call_out.called =>
        \A k \in DOMAIN NICE_CLASSIFICATION :
            call_in.category = NICE_CLASSIFICATION[k].key
                => call_out.value.class_number = NICE_CLASSIFICATION[k].class

\* the term contains no keyword of the table and is contained in none
MatchesNoKeyword(term) ==
    \A k \in DOMAIN NICE_CLASSIFICATION :
        /\ ~Contains(Lower(term), NICE_CLASSIFICATION[k].key)
        /\ ~Contains(NICE_CLASSIFICATION[k].key, Lower(term))

\* the classification the industry gives when nothing else is looked at
ByIndustryAlone(industry) ==
    IF FirstNiceMatch(Lower(industry)) # 0
        THEN NiceEntry(FirstNiceMatch(Lower(industry)))
        ELSE DefaultClassification

\* C30 (as stated), checked under SpecClassify: an empty input has no
\* effect.  A category that matches no keyword, with the empty industry,
\* gets the default class 35; with the empty category the industry alone
\* decides.
C30_EmptyHasNoEffect ==
    call_out.called =>
        /\ (MatchesNoKeyword(call_in.category) /\ call_in.industry = "")
               => call_out.value.class_number = 35
        /\ call_in.category = "" => call_out.value = ByIndustryAlone(call_in.industry)

(***************************************************************************)
(* Claims about generate_phonetic_variants, checked under SpecVariants.    *)
(***************************************************************************)
\* C12: the list returned has at most 5 entries, none is the lower-cased
\* name, none is the empty string, and no two are equal.
C12_VariantsBounded ==
    call_out.called =>
        LET variants == call_out.value
        IN  /\ Len(variants) <= 5
            /\ \A k \in DOMAIN variants :
                   /\ variants[k] # Lower(call_in.brand_name)
                   /\ variants[k] # ""
            /\ \A a, b \in DOMAIN variants : a # b => variants[a] # variants[b]

\* C12 witness: a name with more than 5 variants, of which 5 are returned.
C12_Witness ==
    /\ call_out.called
    /\ Cardinality(VariantSet(call_in.brand_name)) > 5
    /\ Len(call_out.value) = 5

\* the first n candidates without the original, the empty string and the
\* candidates that came before, in the order they were generated
RECURSIVE DistinctInOrder(_, _, _)
DistinctInOrder(candidates, n, name) ==
    IF n = 0 THEN <<>>
    ELSE LET before == DistinctInOrder(candidates, n - 1, name)
             v == candidates[n]
         IN  IF v = name \/ v = "" \/ \E k \in DOMAIN before : before[k] = v
                 THEN before
                 ELSE Append(before, v)

\* the first five variants in generation order
GenerationOrder(brand_name) ==
    LET candidates == VariantCandidates(brand_name)
    IN  Prefix(DistinctInOrder(candidates, Len(candidates), Lower(brand_name)), 5)

\* C22 (as stated): the call returns the first (at most 5) distinct variants
\* in the order in which the substitutions and then the trailing a/e rules
\* produce them, the same list on every call with the same name.
C22_GenerationOrder ==
    call_out.called => call_out.value = GenerationOrder(call_in.brand_name)

(***************************************************************************)
(* Claims about generate_search_queries, checked under SpecQueries.        *)
(***************************************************************************)
\* the number of queries for the brand of this call and n of its countries
CountWith(n) ==
    Len(generate_search_queries(call_in.brand_name, call_in.industry,
            call_in.category, SubSeq(call_in.countries, 1, n), call_out.variants))

\* the number of queries for a brand that has no variants, same other inputs
CountWithoutVariants ==
    Len(generate_search_queries("Bolt", call_in.industry, call_in.category,
            call_in.countries, <<>>))

\* C13 (as stated): up to 4 countries every further country adds queries
\* (0 < 1 < 2 < 3 < 4), and a brand with variants gets more queries than a
\* brand with none.
C13_StrictlyIncreasing ==
    call_out.called =>
        LET n == Len(call_in.countries)
        IN  /\ n \in 1..4 => Len(call_out.value) > CountWith(n - 1)
            /\ call_out.variants # <<>> => Len(call_out.value) > CountWithoutVariants

\* C13 (amended): the count is 13, plus 1 when the brand has variants, plus
\* one per country after the first up to 3.  So it is the same for 0 and 1
\* countries, grows by one at each step from 1 to 4 countries, stays there
\* beyond 4, and is larger by one for a brand with variants.
C13_CountByCountries ==
    call_out.called =>
        LET n == Len(call_in.countries)
            count == Len(call_out.value)
        IN  /\ count = 13 + (IF call_out.variants # <<>> THEN 1 ELSE 0)
                          + Min(Max(n - 1, 0), 3)
            /\ n = 1 => count = CountWith(0)
            /\ n \in 2..4 => count = CountWith(n - 1) + 1
            /\ n > 4 => count = CountWith(n - 1)
            /\ call_out.variants # <<>> => count = CountWithoutVariants + 1
            /\ call_out.variants = <<>> => count = CountWithoutVariants

\* C13 witness: a brand with variants and 4 countries gets 17 queries.
C13_Witness ==
    /\ call_out.called
    /\ Len(call_in.countries) = 4
    /\ call_out.variants # <<>>
    /\ Len(call_out.value) = 17

\* the purposes of the returned queries, in order
PurposesReturned == [k \in DOMAIN call_out.value |-> call_out.value[k].purpose]

\* the purposes the composition rule gives for this call: 3 trademark, 3
\* brand/business, 3 company registry, the phonetic one iff there is a
\* variant, 2 legal, one per country 2..4 in list order, 2 aggregators
PurposesExpected ==
    LET n == Len(call_in.countries)
    IN  << "Find registered trademarks with exact name",
           "Find pending trademark applications",
           "Find trademarks in same Nice class",
           "Find existing brands with same name in industry",
           "Find companies operating with this name",
           "Find market competitors with similar names",
           "Find registered companies",
           "Search Tofler company database",
           "Search Zauba Corp company database" >>
        \o (IF call_out.variants # <<>>
                THEN << "Find phonetically similar trademarks" >> ELSE <<>>)
        \o << "Find relevant legal precedents",
              "Find opposition case precedents" >>
        \o [k \in 1..(IF n > 4 THEN 3 ELSE IF n > 1 THEN n - 1 ELSE 0) |->
                "Find trademarks in " \o call_in.countries[k + 1]]
        \o << "Search trademark aggregator",
              "Search IP India official site" >>

\* the country named in the first trademark query and the registry query
PrimaryCountryIs(country) ==
    /\ call_out.value[1].query =
           "\"" \o call_in.brand_name \o "\" trademark registered " \o country
    /\ call_out.value[7].query =
           "\"" \o call_in.brand_name \o "\" private limited company " \o country

\* the composition and the primary country of the returned list
Composition ==
    /\ PurposesReturned = PurposesExpected
    /\ PrimaryCountryIs(IF call_in.countries = <<>> THEN "India"
                        ELSE call_in.countries[1])

\* C23 (as stated): the list has the fixed composition, the primary country
\* is countries[0] or "India", and the total lies between 14 and 21.
C23_Between14And21 ==
    call_out.called =>
        /\ Composition
        /\ Len(call_out.value) \in 14..21

\* C23 (amended): the list has the fixed composition, the primary country
\* is countries[0] or "India", and the total lies between 13 and 17; both
\* ends are reached within two calls that differ in brand and countries.
C23_Between13And17 ==
    call_out.called =>
        /\ Composition
        /\ Len(call_out.value) \in 13..17
        /\ (call_out.variants = <<>> /\ Len(call_in.countries) <= 1)
               => Len(call_out.value) = 13
        /\ (call_out.variants # <<>> /\ Len(call_in.countries) >= 4)
               => Len(call_out.value) = 17

\* C23 witness: a brand without variants and no country gets 13 queries,
\* the first of them about India.
C23_Witness ==
    /\ call_out.called
    /\ call_out.variants = <<>>
    /\ call_in.countries = <<>>
    /\ Len(call_out.value) = 13
    /\ PrimaryCountryIs("India")

(***************************************************************************)
(* Claims about a research run, checked under Spec and FairSpec.           *)
(***************************************************************************)
\* the run has left the batch loop
Collected == pc \in {"extract", "done", "raised"}

\* the batch of batch_i has been gathered
BatchGathered == pc \in {"sleep", "extract", "done", "raised"}

\* query q has been gathered
Gathered(q) == q <= batch_i \/ (BatchGathered /\ q <= batch_i + batch_size)

\* no call of the run has handed a hit to the function
NoHitsAtAll == \A q \in DOMAIN answers : answers[q] = <<>>

\* the entries of the flat list that the call for query q returned
FlatHitsOf(q) ==
    LET FromQ(r) == r.origin = q
    IN  SelectSeq(all_search_results, FromQ)

\* C1 (as stated): whatever the provider returns, no extractor raises and
\* conduct_trademark_research never leaves through an exception.
C1_NoErrorIsFatal == pc # "raised"

\* C2: when every call of a finished run raised or returned no hit, the run
\* has not raised and its result has four empty lists, counts 0, total 0,
\* overall_risk_score 1, registration_success_probability >= 85,
\* opposition_probability 10 and the classification looked up from category
\* and industry alone, which is class 42 for "SaaS" / "Technology".
C2_DegradedRun ==
    (Collected /\ NoHitsAtAll) =>
        /\ pc # "raised"
        /\ pc = "done" =>
            /\ research.trademark_conflicts = <<>>
            /\ research.company_conflicts = <<>>
            /\ research.common_law_conflicts = <<>>
            /\ research.legal_precedents = <<>>
            /\ research.critical_conflicts_count = 0
            /\ research.high_risk_conflicts_count = 0
            /\ research.total_conflicts_found = 0
            /\ research.overall_risk_score = 1
            /\ research.overall_risk_score \in {1, 2, 3}
            /\ research.registration_success_probability >= 85
            /\ research.opposition_probability = 10
            /\ research.nice_classification =
                   get_nice_classification(args.category, args.industry)
            /\ (args.category = "SaaS" /\ args.industry = "Technology") =>
                   research.nice_classification.class_number = 42

\* C2 witness: the run for "SaaS" / "Technology" has returned, no call gave a
\* hit and a call of the last batch raised.
C2_Witness ==
    /\ pc = "done"
    /\ NoHitsAtAll
    /\ warned
    /\ args.category = "SaaS" /\ args.industry = "Technology"
    /\ research.nice_classification.class_number = 42
    /\ research.overall_risk_score = 1

\* C3: the hits a gathered query returned are in the flat list, all of them,
\* in the order returned, whichever calls failed in its batch or in another;
\* a failed query adds nothing.
C3_ResilientFanOut ==
    \A q \in DOMAIN answers :
        Gathered(q) =>
            LET flat == FlatHitsOf(q)
            IN  /\ Len(flat) = Len(answers[q])
                /\ \A k \in DOMAIN flat :
                       /\ flat[k].title = answers[q][k].title
                       /\ flat[k].url = answers[q][k].url
                       /\ flat[k].snippet = answers[q][k].snippet

\* C3 witness: a batch has been gathered in which one call raised and
\* another returned a hit, and the hit is in the flat list.
C3_Witness ==
    /\ BatchGathered
    /\ warned
    /\ \E q \in DOMAIN answers :
           /\ q > batch_i
           /\ answers[q] # <<>>
           /\ FlatHitsOf(q) # <<>>

\* C4: every entry of the flat list is tagged, and its tag is the purpose of
\* the query whose call returned it.
C4_ExactTagging ==
    \A m \in DOMAIN all_search_results :
        /\ all_search_results[m].query_purpose # None
        /\ all_search_results[m].query_purpose =
               queries[all_search_results[m].origin].purpose

\* C4 witness: a hit returned by a call that is not the first of its batch,
\* in a batch where a sibling raised, is in the flat list with its own
\* query's purpose.
C4_Witness ==
    /\ BatchGathered
    /\ warned
    /\ \E m \in DOMAIN all_search_results :
           /\ all_search_results[m].origin > batch_i + 1
           /\ all_search_results[m].query_purpose =
                  queries[all_search_results[m].origin].purpose
           /\ all_search_results[m].query_purpose # queries[batch_i + 1].purpose

\* C5 (as stated): a call that does not return is given up after its timeout
\* and counts as an empty result, so every batch is executed and the run
\* always gets through its batch loop.
C5_RunCompletes == <>Collected

\* the queries whose call has been created and has neither returned nor failed
InFlight ==
    IF pc = "gather"
        THEN {batch_i + j : j \in {k \in DOMAIN calls : calls[k].status # "returned"}}
        ELSE {}

\* the queries of the batches before the batch of query q
EarlierBatches(q) == 1..(((q - 1) \div 5) * 5)

\* C19: the calls in flight belong to one batch of at most 5 consecutive
\* queries, and a query is issued only when every query of the batches before
\* it has been issued, has returned or failed, has been gathered, and the loop
\* has slept and moved on to the query's batch.
C19_BatchDiscipline ==
    /\ Cardinality(InFlight) <= 5
    /\ \E k \in 0..Len(queries) : InFlight \subseteq (5 * k + 1)..(5 * k + 5)
    /\ \A q \in DOMAIN issued :
           issued[q] > 0 =>
               \A p \in EarlierBatches(q) :
                   /\ issued[p] > 0
                   /\ p \notin InFlight
                   /\ p <= batch_i
                   /\ Len(FlatHitsOf(p)) = Len(answers[p])

\* C19 witness: the five calls of the second batch are in flight, the first
\* of them issued, after a first batch that returned a hit
C19_Witness ==
    /\ InFlight = 6..10
    /\ issued[6] = 1
    /\ \A p \in 1..5 : issued[p] = 1
    /\ \E p \in 1..5 : answers[p] # <<>>

\* C20: no query is issued twice, every query of a gathered batch has been
\* issued once, so at the end of the loop each query of the list has been
\* issued exactly once; a query whose call failed handed nothing to the run and
\* has no entry in the flat list.
C20_OnceEach ==
    /\ \A q \in DOMAIN issued : issued[q] <= 1
    /\ \A q \in DOMAIN issued : Gathered(q) => issued[q] = 1
    /\ Collected => DOMAIN issued = DOMAIN queries
    /\ \A q \in DOMAIN answers :
           (Gathered(q) /\ answers[q] = <<>>) => FlatHitsOf(q) = <<>>

\* C20 witness: the loop has ended, a call of the last batch failed and
\* another call of the run returned a hit
C20_Witness ==
    /\ pc = "extract"
    /\ warned
    /\ \A q \in DOMAIN queries : issued[q] = 1
    /\ \E q \in DOMAIN answers : answers[q] # <<>>
    /\ \E q \in DOMAIN answers : q > batch_i /\ FlatHitsOf(q) = <<>>

\* a hit the provider returned for a query of a gathered batch is not in the
\* flat list: the exception came before the result of its call was appended
HitLost(q) == Gathered(q) /\ answers[q] # <<>> /\ FlatHitsOf(q) = <<>>

\* the flat list only grows at its end
FlatListKept ==
    /\ Len(all_search_results') >= Len(all_search_results)
    /\ SubSeq(all_search_results', 1, Len(all_search_results)) = all_search_results

\* C21: an exception in the try block of a batch does not end the run: the
\* run raises only when an extractor raises, every query of every batch has
\* been issued when the loop ends, what is in the flat list stays there, and
\* the result returned is the extraction and the scoring of the flat list.
C21_BatchFailureRecovered ==
    /\ [](pc = "raised" => LegalPrecedentsRaise(all_search_results))
    /\ [](Collected => \A q \in DOMAIN queries : issued[q] = 1)
    /\ [](pc = "done" =>
             research =
                 Researched([NewResult(args) EXCEPT !.nice_classification =
                                get_nice_classification(args.category, args.industry)],
                            all_search_results, args, generated_variants))
    /\ [][pc # "start" => FlatListKept]_vars

\* C21 witness: a hit of the first batch was lost to an exception and the
\* run has gone on to issue the second batch
C21_Witness ==
    /\ pc = "gather"
    /\ batch_i = batch_size
    /\ issued[batch_size + 1] = 1
    /\ \E q \in 1..batch_size : HitLost(q)

\* the flat list made of the provider's answers to the first n queries: query
\* by query in the order of the query list, the hits of one query in the
\* order the provider returned them, each tagged with its query's purpose
RECURSIVE FlatInQueryOrder(_)
FlatInQueryOrder(n) ==
    IF n = 0 THEN <<>>
    ELSE FlatInQueryOrder(n - 1)
             \o [k \in DOMAIN answers[n] |->
                    [SearchResult(answers[n][k], n) EXCEPT
                        !.query_purpose = queries[n].purpose]]

\* the number of queries whose batch has been gathered
GatheredQueries ==
    IF BatchGathered THEN Min(Len(queries), batch_i + batch_size) ELSE batch_i

\* C27: the flat hit list is determined by the provider's answers: the hits
\* stand in the order of their queries in the query list, and for one
\* query in the order the provider returned them, in whatever order the
\* calls of a batch ended.
C27_DeterministicOrder ==
    pc # "start" => all_search_results = FlatInQueryOrder(GatheredQueries)

\* C27 witness: the list holds two different hits of query 2 and then a hit
\* of query 7, which was answered in the next batch.
C27_Witness ==
    /\ Collected
    /\ Len(all_search_results) = 3
    /\ all_search_results[1].origin = 2
    /\ all_search_results[2].origin = 2
    /\ all_search_results[1].title # all_search_results[2].title
    /\ all_search_results[3].origin = 7

\* the risk levels of the records of the result
LevelsReported ==
    { research.trademark_conflicts[k].risk_level : k \in DOMAIN research.trademark_conflicts }
    \cup { research.company_conflicts[k].risk_level : k \in DOMAIN research.company_conflicts }
    \cup { research.common_law_conflicts[k].risk_level :
               k \in DOMAIN research.common_law_conflicts }

\* C26: whatever the provider does, the result of a run has only records of
\* level HIGH, MEDIUM or LOW, so its critical_conflicts_count is 0, its
\* overall_risk_score at most 9 and its registration_success_probability at
\* least 30.
C26_NeverCritical ==
    pc # "start" =>
        /\ LevelsReported \subseteq {"HIGH", "MEDIUM", "LOW"}
        /\ research.critical_conflicts_count = 0
        /\ research.overall_risk_score <= 9
        /\ research.registration_success_probability >= 30

\* C26 witness: a returned result with a record of level HIGH, the highest
\* level there is, counted as high and not as critical.
C26_Witness ==
    /\ pc = "done"
    /\ "HIGH" \in LevelsReported
    /\ research.high_risk_conflicts_count > 0
    /\ research.overall_risk_score > 5

(***************************************************************************)
(* Claims about calculate_risk_scores, checked under SpecScore.            *)
(***************************************************************************)
Scored == sc_out # NoScores

\* the records of the trademark and company lists that have the given level
ScoredAt(level) ==
    Cardinality({i \in DOMAIN sc_in.trademark_conflicts :
                    sc_in.trademark_conflicts[i].risk_level = level})
    + Cardinality({i \in DOMAIN sc_in.company_conflicts :
                    sc_in.company_conflicts[i].risk_level = level})

InTotal ==
    Len(sc_in.trademark_conflicts) + Len(sc_in.company_conflicts)
    + Len(sc_in.common_law_conflicts)

\* C6: the result of calculate_risk_scores is the piecewise function of the
\* critical, high and medium counts (over the trademark and company lists) and
\* of total = |trademark| + |company| + |common_law|, the branches taken in the
\* order critical, high, medium, none.
C6_Piecewise ==
    Scored =>
        LET c == ScoredAt("CRITICAL")
            h == ScoredAt("HIGH")
            m == ScoredAt("MEDIUM")
            t == InTotal
            upper == Min(90, 60 + 15 * c + 10 * h)
        IN  /\ sc_out.critical_conflicts_count = c
            /\ sc_out.high_risk_conflicts_count = h
            /\ sc_out.total_conflicts_found = t
            /\ c > 0 =>
                /\ sc_out.overall_risk_score = Min(10, 8 + c)
                /\ sc_out.registration_success_probability = Max(10, 30 - 10 * c)
                /\ sc_out.opposition_probability = upper
            /\ (c = 0 /\ h > 0) =>
                /\ sc_out.overall_risk_score = Min(9, 5 + h)
                /\ sc_out.registration_success_probability = Max(30, 60 - 10 * h)
                /\ sc_out.opposition_probability = (IF h = 1 THEN 50 ELSE upper)
            /\ (c = 0 /\ h = 0 /\ m > 0) =>
                /\ sc_out.overall_risk_score = Min(6, 3 + m)
                /\ sc_out.registration_success_probability = Max(50, 80 - 5 * m)
                /\ sc_out.opposition_probability = Min(40, 20 + 5 * m)
            /\ (c = 0 /\ h = 0 /\ m = 0) =>
                /\ sc_out.overall_risk_score
                       = (IF t < 1 THEN 1 ELSE IF t > 3 THEN 3 ELSE t)
                /\ sc_out.registration_success_probability
                       = (IF t = 0 THEN 90 ELSE 85)
                /\ sc_out.opposition_probability = 10

\* C6 witness: scored lists with no critical, one high and some medium records
\* and a common-law record, so the high branch wins over the medium branch.
C6_Witness ==
    /\ Scored
    /\ ScoredAt("CRITICAL") = 0 /\ ScoredAt("HIGH") = 1 /\ ScoredAt("MEDIUM") > 0
    /\ Len(sc_in.common_law_conflicts) > 0
    /\ sc_out.overall_risk_score = 6
    /\ sc_out.opposition_probability = 50

\* C7: overall_risk_score is an integer in 1..10 and both probabilities are
\* integers in 0..100, for every input.
C7_Ranges ==
    Scored =>
        /\ sc_out.overall_risk_score \in 1..10
        /\ sc_out.registration_success_probability \in 0..100
        /\ sc_out.opposition_probability \in 0..100

\* C7 witness: three critical records, where 8 + critical exceeds the cap.
C7_Witness ==
    /\ Scored
    /\ ScoredAt("CRITICAL") >= 3
    /\ sc_out.overall_risk_score = 10

\* C8: with at least one critical record, overall_risk_score and
\* registration_success_probability are those of the list of the critical
\* records alone (no high, medium, low or common-law record changes them);
\* one critical record gives overall risk 9.
C8_CriticalDominates ==
    (Scored /\ ScoredAt("CRITICAL") >= 1) =>
        LET c == ScoredAt("CRITICAL")
            alone == calculate_risk_scores(
                         [i \in 1..c |-> [risk_level |-> "CRITICAL"]], <<>>, <<>>)
        IN  /\ sc_out.overall_risk_score = alone.overall_risk_score
            /\ sc_out.registration_success_probability
                   = alone.registration_success_probability
            /\ c = 1 => sc_out.overall_risk_score = 9

\* C8 witness: one critical and five high records were scored, overall risk 9.
C8_Witness ==
    /\ Scored
    /\ ScoredAt("CRITICAL") = 1 /\ ScoredAt("HIGH") = 5
    /\ sc_out.overall_risk_score = 9

\* C9: appending one record of any risk level to the trademark list or to the
\* company list never lowers overall_risk_score or opposition_probability and
\* never raises registration_success_probability.
C9_Monotonic ==
    Scored =>
        \A level \in RiskLevels :
            LET more == <<[risk_level |-> level]>>
                viaTm == calculate_risk_scores(sc_in.trademark_conflicts \o more,
                             sc_in.company_conflicts, sc_in.common_law_conflicts)
                viaCo == calculate_risk_scores(sc_in.trademark_conflicts,
                             sc_in.company_conflicts \o more,
                             sc_in.common_law_conflicts)
            IN  \A r \in {viaTm, viaCo} :
                    /\ r.overall_risk_score >= sc_out.overall_risk_score
                    /\ r.opposition_probability >= sc_out.opposition_probability
                    /\ r.registration_success_probability
                           <= sc_out.registration_success_probability

\* C9 witness: six medium records were scored (overall risk at its cap of 6),
\* and one more HIGH record moves every score in the stated direction.
C9_Witness ==
    /\ Scored
    /\ ScoredAt("MEDIUM") = 6
    /\ sc_out.overall_risk_score = 6
    /\ LET r == calculate_risk_scores(
                    sc_in.trademark_conflicts \o <<[risk_level |-> "HIGH"]>>,
                    sc_in.company_conflicts, sc_in.common_law_conflicts)
       IN  /\ r.opposition_probability > sc_out.opposition_probability
           /\ r.overall_risk_score >= sc_out.overall_risk_score

\* C10 as stated: for fixed trademark and company lists the three scores are
\* the same for every common-law list.
C10_CommonLawNotScored ==
    Scored =>
        \A cl \in SeqsUpTo(CommonLawRecords, MaxCommonLaw) :
            LET r == calculate_risk_scores(sc_in.trademark_conflicts,
                                           sc_in.company_conflicts, cl)
            IN  /\ r.overall_risk_score = sc_out.overall_risk_score
                /\ r.registration_success_probability
                       = sc_out.registration_success_probability
                /\ r.opposition_probability = sc_out.opposition_probability

\* C10 amended: for fixed trademark and company lists, opposition_probability
\* is the same for every common-law list; overall_risk_score and
\* registration_success_probability are the same for every common-law list
\* when some trademark or company record is CRITICAL, HIGH or MEDIUM, and
\* otherwise depend on the common-law list only through its length.
C10_CommonLawOnlyInTotal ==
    Scored =>
        \A cl \in SeqsUpTo(CommonLawRecords, MaxCommonLaw) :
            LET r == calculate_risk_scores(sc_in.trademark_conflicts,
                                           sc_in.company_conflicts, cl)
                tiered == ScoredAt("CRITICAL") + ScoredAt("HIGH")
                          + ScoredAt("MEDIUM") > 0
            IN  /\ r.opposition_probability = sc_out.opposition_probability
                /\ (tiered \/ Len(cl) = Len(sc_in.common_law_conflicts)) =>
                    /\ r.overall_risk_score = sc_out.overall_risk_score
                    /\ r.registration_success_probability
                           = sc_out.registration_success_probability

\* C10 witness: a MEDIUM trademark record scored together with a non-empty
\* common-law list.
C10_Witness ==
    /\ Scored
    /\ ScoredAt("MEDIUM") = 1 /\ ScoredAt("HIGH") = 0 /\ ScoredAt("CRITICAL") = 0
    /\ Len(sc_in.common_law_conflicts) = 1
    /\ sc_out.overall_risk_score = 4


(***************************************************************************)
(* Claims about the four extractors, checked under SpecExtract.            *)
(***************************************************************************)
\* the lists holding the entries of list in another order
Reorderings(list) ==
    LET n == Len(list)
        orders == {p \in [1..n -> 1..n] : \A a, b \in 1..n : a # b => p[a] # p[b]}
    IN  {[k \in 1..n |-> list[p[k]]] : p \in orders}

\* the name a record is deduplicated under
NameOf(record) ==
    IF "case_name" \in DOMAIN record THEN record.case_name ELSE record.name

Records(outcome) == {outcome.value[k] : k \in DOMAIN outcome.value}

Names(outcome) == {Lower(NameOf(record)) : record \in Records(outcome)}

\* the call of call_in's extractor on another list
OutcomeOn(list) == Outcome([call_in EXCEPT !.search_results = list])

FirstRecordUnder(name) ==
    LET list == call_in.search_results
        Alone(k) == OutcomeOn(<<list[k]>>)
        first == CHOOSE k \in DOMAIN list :
                     /\ name \in Names(Alone(k))
                     /\ \A before \in 1..(k - 1) : name \notin Names(Alone(before))
    IN  Alone(first).value[1]

\* C15, as the specification states it: no two records of an extractor's
\* output have names equal ignoring case, and each record is the one of the
\* first hit in list order that gives its name.
C15_DedupByName ==
    call_out.called =>
        /\ \A a, b \in DOMAIN call_out.value :
               a # b => Lower(NameOf(call_out.value[a])) # Lower(NameOf(call_out.value[b]))
        /\ \A a \in DOMAIN call_out.value :
               call_out.value[a] = FirstRecordUnder(Lower(NameOf(call_out.value[a])))


\* url holds one of the markers of a registry or legal site, in any letter case
NamesRegistry(url) ==
    \E marker \in {"trademark", "ipindia", "wipo", "uspto", "tofler", "mca.gov",
                   "court", "legal", "law"} :
        Contains(Lower(url), marker)

\* a hit that the common-law extractor would take but for its url
BusinessOfBrand(hit) ==
    /\ ContainsAny(Combined(hit), business_keywords)
    /\ Contains(Combined(hit), Lower(call_in.brand_name))

\* C16: extract_common_law_conflicts emits no record for a hit whose url
\* holds a registry marker in any letter case, even when the hit mentions the
\* brand and holds business keywords.
C16_RegistryExcluded ==
    (call_out.called /\ call_in.extractor = "common_law") =>
        \A k \in DOMAIN call_in.search_results :
            NamesRegistry(call_in.search_results[k].url) =>
                \A record \in Records(call_out) :
                    record.url # call_in.search_results[k].url

\* a registry hit in mixed case that mentions the brand with a business
\* keyword, next to a hit that is emitted
C16_Witness ==
    /\ call_out.called
    /\ call_in.extractor = "common_law"
    /\ \E k \in DOMAIN business_keywords :
           \E hit \in {BusinessHit("https://WIPO.int/zen", k)} :
               /\ call_in.search_results = <<hit, InstagramHit>>
               /\ NamesRegistry(hit.url)
               /\ BusinessOfBrand(hit)
    /\ Len(call_out.value) = 1
    /\ call_out.value[1].url = InstagramHit.url


\* C17: on the single hit of scenario B (title "ZenTech Pvt Ltd", brand "Zen",
\* a snippet with "registered" and "class N") extract_trademark_conflicts
\* returns exactly one conflict, with status REGISTERED, class_number N and
\* risk_level HIGH, and extract_company_conflicts returns exactly one conflict,
\* with risk_level HIGH.
C17_ScenarioB ==
    \A N \in ScenarioClasses :
        (call_out.called /\ call_in.search_results = <<ScenarioB(N)>>) =>
            /\ call_in.extractor = "trademark" =>
                   /\ Len(call_out.value) = 1
                   /\ call_out.value[1].status = "REGISTERED"
                   /\ call_out.value[1].class_number = N
                   /\ call_out.value[1].risk_level = "HIGH"
            /\ call_in.extractor = "company" =>
                   /\ Len(call_out.value) = 1
                   /\ call_out.value[1].risk_level = "HIGH"

\* the company extractor has been called on the hit of scenario B with
\* class 42 and has named the company of the title
C17_Witness ==
    /\ call_out.called
    /\ call_in.extractor = "company"
    /\ call_in.search_results = <<ScenarioB("42")>>
    /\ Contains(Lower(ScenarioB("42").snippet), "registered")
    /\ Len(call_out.value) = 1
    /\ call_out.value[1].name = "ZenTech Pvt Ltd"


(***************************************************************************)
(* Claims about the status and the risk level of a trademark record,       *)
(* checked under SpecStatus.                                               *)
(***************************************************************************)
\* the status keywords in their order of priority, and the status of each
StatusKeywords == <<"registered", "pending", "objected", "opposed", "abandoned">>

StatusNames == <<"REGISTERED", "PENDING", "OBJECTED", "OPPOSED", "ABANDONED">>

\* status is what the first keyword that occurs in the text stands for, or
\* nothing when none occurs
FirstKeywordGives(text, status) ==
    /\ \A k \in DOMAIN StatusKeywords :
           status = StatusNames[k] <=>
               /\ Contains(text, StatusKeywords[k])
               /\ \A j \in 1..(k - 1) : ~Contains(text, StatusKeywords[j])
    /\ status = None <=>
           \A k \in DOMAIN StatusKeywords : ~Contains(text, StatusKeywords[k])

\* the hits of the call that a record can have come from
HitsOf(record) ==
    {k \in DOMAIN call_in.search_results : call_in.search_results[k].url = record.url}

\* C24: every trademark record has the status of the first of registered,
\* pending, objected, opposed, abandoned that occurs in the lower-cased
\* title and snippet of its hit (none if none occurs); its risk level is HIGH
\* exactly for REGISTERED, LOW exactly for OBJECTED, MEDIUM otherwise, and
\* never CRITICAL.
C24_StatusAndRisk ==
    (call_out.called /\ call_in.extractor = "trademark") =>
        \A r \in DOMAIN call_out.value :
            LET record == call_out.value[r]
            IN  /\ \E k \in HitsOf(record) :
                       FirstKeywordGives(Lower(call_in.search_results[k].title) \o " "
                                          \o Lower(call_in.search_results[k].snippet),
                                         record.status)
                /\ record.risk_level = "HIGH" <=> record.status = "REGISTERED"
                /\ record.risk_level = "LOW" <=> record.status = "OBJECTED"
                /\ record.risk_level = "MEDIUM" <=>
                       record.status \in {"PENDING", "OPPOSED", "ABANDONED", None}
                /\ record.risk_level # "CRITICAL"

\* C24 witness: a hit that says "abandoned" before "opposed" gave a record
\* with status OPPOSED and risk MEDIUM.
C24_Witness ==
    /\ call_out.called
    /\ call_in.search_results = <<StatusHit("", "abandoned", "opposed")>>
    /\ Len(call_out.value) = 1
    /\ call_out.value[1].status = "OPPOSED"
    /\ call_out.value[1].risk_level = "MEDIUM"

(***************************************************************************)
(* Claims about which hits give a record, checked under SpecRelevance.     *)
(***************************************************************************)
\* the hit's lower-cased title and snippet
TextOf(hit) == Lower(hit.title) \o " " \o Lower(hit.snippet)

\* the hit mentions the brand of the call or one of its phonetic variants
Relevant(hit) ==
    \/ Contains(TextOf(hit), Lower(call_in.brand_name))
    \/ \E v \in VariantSet(call_in.brand_name) : Contains(TextOf(hit), v)

\* the hit mentions a variant and not the brand
OnlyVariant(hit) == Relevant(hit) /\ ~Contains(TextOf(hit), Lower(call_in.brand_name))

\* the hit passes every test of the common-law extractor but the brand test
OperatingBusiness(hit) ==
    /\ ContainsAny(TextOf(hit), business_keywords)
    /\ ~IsRegistry(hit.url)
    /\ extract_business_name(hit.title, call_in.brand_name) \notin {None, ""}

\* every record of the call comes from a hit that mentions the brand or a variant
RecordsOnlyFromRelevant ==
    \A r \in DOMAIN call_out.value :
        \E k \in HitsOf(call_out.value[r]) : Relevant(call_in.search_results[k])

\* the common-law extractor gives a record for a business mentioned by a variant only
VariantOnlyCounts ==
    call_in.extractor = "common_law" =>
        \A k \in DOMAIN call_in.search_results :
            (OnlyVariant(call_in.search_results[k])
                /\ OperatingBusiness(call_in.search_results[k]))
            => \E r \in DOMAIN call_out.value :
                   call_out.value[r].url = call_in.search_results[k].url

\* C25 (as stated): each of the four extractors gives a record only for a
\* hit whose lower-cased title and snippet contain the brand or one of its
\* phonetic variants, the legal extractor included, and the common-law
\* extractor takes a hit that contains only a variant as relevant.
C25_SameRelevanceTest ==
    (call_out.called /\ ~call_out.raised) =>
        /\ RecordsOnlyFromRelevant
        /\ VariantOnlyCounts

\* C28 (as stated): in every record of extract_common_law_conflicts, for
\* every industry string, the empty one included, risk_level is MEDIUM
\* exactly when industry_match is true and LOW exactly when it is false.
C28_RiskAgreesWithFlag ==
    (call_out.called /\ call_in.extractor = "common_law") =>
        \A r \in DOMAIN call_out.value :
            /\ call_out.value[r].risk_level = "MEDIUM" <=> call_out.value[r].industry_match
            /\ call_out.value[r].risk_level = "LOW" <=> ~call_out.value[r].industry_match

(***************************************************************************)
(* Claims about two runs on one event loop, checked under SpecRuns.        *)
(***************************************************************************)
\* the flat list a run builds alone from the answers the provider has given
\* to its first n queries
RECURSIVE FlatAlone(_, _)
FlatAlone(run, n) ==
    IF n = 0 THEN <<>>
    ELSE FlatAlone(run, n - 1)
             \o Tagged([k \in DOMAIN run.answers[n] |->
                           SearchResult(run.answers[n][k], n)], run.queries[n])

\* the queries of a run whose batch has been gathered
RunGathered(run) ==
    IF run.pc \in {"start", "batch", "gather"}
        THEN run.batch_i
        ELSE Min(Len(run.queries), run.batch_i + batch_size)

\* C18: at every moment the flat list of each run is the one it builds alone
\* from the provider's answers to its own queries, and the result of a run
\* that has returned (its conflict lists, counts and scores) is the one the
\* run computes alone from its own arguments and that list; it raises when
\* alone it raises.
C18_NoCrossRunMemory ==
    \A r \in RunIds :
        /\ runs[r].all_search_results = FlatAlone(runs[r], RunGathered(runs[r]))
        /\ runs[r].pc = "done" =>
               /\ ~LegalPrecedentsRaise(FlatAlone(runs[r], Len(runs[r].queries)))
               /\ runs[r].research =
                      Researched([NewResult(runs[r].args) EXCEPT !.nice_classification =
                                     get_nice_classification(runs[r].args.category,
                                                             runs[r].args.industry)],
                                 FlatAlone(runs[r], Len(runs[r].queries)),
                                 runs[r].args, runs[r].variants)
        /\ runs[r].pc = "raised" =>
               LegalPrecedentsRaise(FlatAlone(runs[r], Len(runs[r].queries)))

\* C18 witness: both runs have returned after their calls were interleaved;
\* the first got a hit that names the brand and has conflicts, the second, for
\* the same brand, got none and has none
C18_Witness ==
    /\ runs[1].pc = "done"
    /\ runs[2].pc = "done"
    /\ runs[1].all_search_results # <<>>
    /\ runs[1].research.total_conflicts_found > 0
    /\ runs[2].all_search_results = <<>>
    /\ runs[2].research.total_conflicts_found = 0

====
